---- MODULE Spec2Model ----
(***************************************************************************)
(* ContextGuard / ContextHound scan engine: rule dispatch with             *)
(* deduplication, risk scoring with mitigation discount, result            *)
(* aggregation, the incremental cache and the concurrency limiter of       *)
(* runScan.                                                                *)
(*                                                                         *)
(* Text is abstracted line by line: a line is a record that says which     *)
(* patterns of the program match it.  Strings that the code slices or      *)
(* compares by prefix (rule ids, filter patterns) are sequences of         *)
(* one-character strings.  An optional number that is unset is Unset.      *)
(***************************************************************************)
EXTENDS Integers, Sequences, FiniteSets, TLC

VARIABLES
    tree,           \* the scanned tree: file -> [mtime, readable, lines]
    cacheFile,      \* content of .hound-cache.json on disk
    config,         \* AuditConfig of the current call
    pc,             \* position of runScan / of the function under study
    cache,          \* runScan: in-memory HoundCache
    queue,          \* createLimiter: queued thunks (file indices)
    active,         \* createLimiter: active counter
    micro,          \* pending .finally callbacks, FIFO, each with its task's outcome
    fileResults,    \* runScan / buildScanResult: FileResult[]
    totalFindings,  \* runScan: totalFindings
    aborted,        \* runScan: aborted
    result,         \* the ScanResult returned (NoResult before)
    extracted,      \* files extractPrompts was called on during this scan
    dispatched,     \* files analyzePrompt was called on during this scan
    emitted,        \* findings passed to onFinding during this scan, in order
    prompts,        \* analyzePrompt: its argument
    findings,       \* analyzePrompt: its return value
    taskState,      \* runScan: how far the task of each file got
    prev,           \* what the previous completed scan returned and saw, per file
    pluginRules,    \* runScan: the rules loadPluginRules returned (or undefined)
    cacheIO,        \* calls of loadCache and saveCache made by the current scan
    started,        \* createLimiter: the tasks whose thunk ran, in that order
    promise,        \* createLimiter: state of the promise limit() returned, per task
    tracker         \* extractFromCode: the template-literal tracker and its line index

vars == <<tree, cacheFile, config, pc, cache, queue, active, micro,
          fileResults, totalFindings, aborted, result, extracted, dispatched,
          emitted, prompts, findings, taskState, prev, pluginRules,
          cacheIO, started, promise, tracker>>

Unset == -1

Min(a, b) == IF a < b THEN a ELSE b
Max(a, b) == IF a > b THEN a ELSE b

RECURSIVE SumSeq(_)
SumSeq(s) == IF s = <<>> THEN 0 ELSE Head(s) + SumSeq(Tail(s))

\* a finite set of numbers as an increasing sequence
RECURSIVE SortedNat(_)
SortedNat(S) ==
    IF S = {} THEN <<>>
    ELSE LET m == CHOOSE x \in S : \A y \in S : x <= y
         IN  <<m>> \o SortedNat(S \ {m})

RECURSIVE Flatten(_)
Flatten(ss) == IF ss = <<>> THEN <<>> ELSE Head(ss) \o Flatten(Tail(ss))

Severities == {"low", "medium", "high", "critical"}
Confidences == {"low", "medium", "high"}

(***************************************************************************)
(* Risk points                                                             *)
(***************************************************************************)

\* SEVERITY_WEIGHTS
SeverityWeight(severity) ==
    CASE severity = "low" -> 5
      [] severity = "medium" -> 15
      [] severity = "high" -> 30
      [] severity = "critical" -> 50

\* multipliers in the opposite order: 1.0, 0.75, 0.5
ConfidenceQuartersInverted(confidence) ==
    CASE confidence = "low" -> 4
      [] confidence = "medium" -> 3
      [] confidence = "high" -> 2

\* CONFIDENCE_MULTIPLIERS, in quarters: 0.5, 0.75, 1.0
ConfidenceQuarters(confidence) ==
    CASE confidence = "low" -> 2
      [] confidence = "medium" -> 3
      [] confidence = "high" -> 4

\* Math.round(n / d) for n >= 0, d > 0: halves round up
RoundDiv(n, d) == (2 * n + d) \div (2 * d)

\* The products weight * multiplier are exact in binary floating point.
calcRiskPoints(severity, confidence) ==
    RoundDiv(SeverityWeight(severity) * ConfidenceQuarters(confidence), 4)

(***************************************************************************)
(* Text.  A line says what the program's patterns find in it:              *)
(*   len    its length in characters                                       *)
(*   key    PROMPT_KEY_PATTERN matches it                                  *)
(*   phrase SYSTEM_PHRASE_PATTERN matches it                               *)
(*   hits   ids of the rules whose pattern matches it                      *)
(*   boom   ids of the rules whose check throws on a text holding it       *)
(*   mit    the mitigation checks (1..5) whose wording it holds            *)
(*   ticks  it holds an odd number of backticks                            *)
(*   role   ROLE_CONTENT_PATTERN matches it                                *)
(*   trigger  a match of one of the five cross-line trigger patterns       *)
(*          (SHELL_EXEC, MESSAGES_PUSH, BASE64_CALL, JSON_PARSE,           *)
(*          MD_RENDER) starts in it                                        *)
(*   llm    it holds an import of an LLM library (from openai import ...)  *)
(* The lines of the model hold a prompt key only in its quoted form, so a  *)
(* text of several lines matches PROMPT_KEY_PATTERN when one of its lines  *)
(* does.                                                                   *)
(* A file content is a non-empty sequence of lines (content.split('\n')).  *)
(***************************************************************************)

CodeLine(len, key, phrase, hits, boom, mit, ticks, role, trigger, llm) ==
    [len |-> len, key |-> key, phrase |-> phrase, hits |-> hits, boom |-> boom,
     mit |-> mit, ticks |-> ticks, role |-> role, trigger |-> trigger, llm |-> llm]

\* a line without backticks, role/content pair, trigger or import
Line(len, key, phrase, hits, boom, mit) ==
    CodeLine(len, key, phrase, hits, boom, mit, FALSE, FALSE, FALSE, FALSE)

\* content.length: the lines and the newlines between them
RECURSIVE ContentLength(_)
ContentLength(lines) ==
    IF lines = <<>> THEN 0
    ELSE Head(lines).len + (IF Len(lines) > 1 THEN 1 ELSE 0) + ContentLength(Tail(lines))

(***************************************************************************)
(* Mitigation scorer                                                       *)
(***************************************************************************)

\* the reduction of each of the five checks, in the order of checks[]
MitigationReduction == <<15, 20, 15, 10, 10>>

MitigationPresent(text, c) == \E i \in 1..Len(text) : c \in text[i].mit

RECURSIVE MitigationSum(_, _)
MitigationSum(text, c) ==
    IF c > Len(MitigationReduction) THEN 0
    ELSE (IF MitigationPresent(text, c) THEN MitigationReduction[c] ELSE 0)
         + MitigationSum(text, c + 1)

\* scoreMitigations(prompt).total
scoreMitigations(prompt) == MitigationSum(prompt.text, 1)

(***************************************************************************)
(* Rules                                                                   *)
(***************************************************************************)

Str_INJ001 == <<"I", "N", "J", "-", "0", "0", "1">>
Str_INJ002 == <<"I", "N", "J", "-", "0", "0", "2">>
Str_JBK001 == <<"J", "B", "K", "-", "0", "0", "1">>

\* the registry, in registration order (a sample of the built-in rules)
allRules ==
    << [id |-> Str_INJ001, severity |-> "high", confidence |-> "medium"],
       [id |-> Str_INJ002, severity |-> "medium", confidence |-> "low"],
       [id |-> Str_JBK001, severity |-> "critical", confidence |-> "high"] >>

RuleIds == {allRules[i].id : i \in 1..Len(allRules)}

\* rule.check throws on this prompt
CheckThrows(rule, prompt) == \E i \in 1..Len(prompt.text) : rule.id \in prompt.text[i].boom

\* matchPattern: one match per line of the prompt that the rule's pattern matches,
\* at line prompt.lineStart + i (i from 0)
RECURSIVE MatchLines(_, _, _)
MatchLines(rule, prompt, i) ==
    IF i > Len(prompt.text) THEN <<>>
    ELSE (IF rule.id \in prompt.text[i].hits
          THEN << [lineStart |-> prompt.lineStart + (i - 1),
                   lineEnd |-> prompt.lineStart + (i - 1)] >>
          ELSE <<>>)
         \o MatchLines(rule, prompt, i + 1)

RuleCheck(rule, prompt) == MatchLines(rule, prompt, 1)

\* ruleToFinding (title, evidence and remediation are copied text, left out)
ruleToFinding(rule, match, filePath) ==
    [id |-> rule.id, severity |-> rule.severity, confidence |-> rule.confidence,
     file |-> filePath, lineStart |-> match.lineStart, lineEnd |-> match.lineEnd,
     riskPoints |-> calcRiskPoints(rule.severity, rule.confidence)]

(***************************************************************************)
(* Dispatch: analyzePrompt                                                 *)
(***************************************************************************)

\* pattern.endsWith('*') ? id.startsWith(pattern.slice(0, -1)) : id === pattern
matchesFilter(id, pattern) ==
    IF Len(pattern) > 0 /\ pattern[Len(pattern)] = "*"
    THEN Len(id) >= Len(pattern) - 1
         /\ SubSeq(id, 1, Len(pattern) - 1) = SubSeq(pattern, 1, Len(pattern) - 1)
    ELSE id = pattern

\* confidenceOrder.indexOf
ConfidenceIndex(c) == CASE c = "low" -> 0 [] c = "medium" -> 1 [] c = "high" -> 2

\* filters that forget the include list
RuleSkippedNoInclude(rule, cfg) ==
    \/ \E k \in 1..Len(cfg.excludeRules) : matchesFilter(rule.id, cfg.excludeRules[k])
    \/ /\ cfg.minConfidence # "unset"
       /\ ConfidenceIndex(rule.confidence) < ConfidenceIndex(cfg.minConfidence)

\* the three `continue` filters of the rule loop
RuleSkipped(rule, cfg) ==
    \/ \E k \in 1..Len(cfg.excludeRules) : matchesFilter(rule.id, cfg.excludeRules[k])
    \/ /\ Len(cfg.includeRules) > 0
       /\ ~ \E k \in 1..Len(cfg.includeRules) : matchesFilter(rule.id, cfg.includeRules[k])
    \/ /\ cfg.minConfidence # "unset"
       /\ ConfidenceIndex(rule.confidence) < ConfidenceIndex(cfg.minConfidence)

\* finding.riskPoints * (1 - reduction) is a product of IEEE-754 doubles.  For
\* the risk points and mitigation totals the program produces, Math.round of it
\* is the exact product rounded half up, except where the exact product is a
\* half and the double falls just below it: 30 * (1 - 0.55) = 13.499999999999998
\* and 50 * (1 - 0.55) = 22.499999999999996.
ProductBelowHalf(riskPoints, total) == total = 55 /\ riskPoints \in {30, 50}

\* Math.max(1, Math.round(finding.riskPoints * (1 - reduction)))
applyMitigation(riskPoints, total) ==
    Max(1, RoundDiv(riskPoints * (100 - total), 100)
           - (IF ProductBelowHalf(riskPoints, total) THEN 1 ELSE 0))

\* the dedup key `${rule.id}:${filePath}:${match.lineStart}`
DedupKey(rule, filePath, match) == <<rule.id, filePath, match.lineStart>>

\* a dedup test that never finds the key
SeenNever(acc, key) == FALSE

\* if (seen.has(key)) continue
Seen(acc, key) == key \in acc.seen

\* a loop in which a later unit's discount replaces the one of the finding kept
RECURSIVE AnalyzeMatchesLastWins(_, _, _, _, _)
AnalyzeMatchesLastWins(matches, rule, filePath, total, acc) ==
    IF matches = <<>> THEN acc
    ELSE LET match == Head(matches)
             key == DedupKey(rule, filePath, match)
             f == ruleToFinding(rule, match, filePath)
             finding == [f EXCEPT !.riskPoints = applyMitigation(f.riskPoints, total)]
         IN  IF Seen(acc, key)
             THEN AnalyzeMatchesLastWins(Tail(matches), rule, filePath, total,
                      [acc EXCEPT !.findings =
                          [k \in 1..Len(acc.findings) |->
                              IF /\ acc.findings[k].id = finding.id
                                 /\ acc.findings[k].lineStart = finding.lineStart
                              THEN finding ELSE acc.findings[k]]])
             ELSE AnalyzeMatchesLastWins(Tail(matches), rule, filePath, total,
                      [acc EXCEPT !.seen = acc.seen \cup {key},
                                  !.findings = Append(acc.findings, finding)])

\* the loop over the matches of one rule on one prompt; acc = [findings, seen]
RECURSIVE AnalyzeMatches(_, _, _, _, _)
AnalyzeMatches(matches, rule, filePath, total, acc) ==
    IF matches = <<>> THEN acc
    ELSE LET match == Head(matches)
             key == DedupKey(rule, filePath, match)
             f == ruleToFinding(rule, match, filePath)
             finding == [f EXCEPT !.riskPoints = applyMitigation(f.riskPoints, total)]
         IN  IF Seen(acc, key)
             THEN AnalyzeMatches(Tail(matches), rule, filePath, total, acc)
             ELSE AnalyzeMatches(Tail(matches), rule, filePath, total,
                      [acc EXCEPT !.seen = acc.seen \cup {key},
                                  !.findings = Append(acc.findings, finding)])

\* the loop over allRules for one prompt, from rule r on
RECURSIVE AnalyzeRules(_, _, _, _, _)
AnalyzeRules(r, prompt, filePath, cfg, acc) ==
    IF r > Len(allRules) \/ acc.threw THEN acc
    ELSE LET rule == allRules[r]
         IN  IF RuleSkipped(rule, cfg)
             THEN AnalyzeRules(r + 1, prompt, filePath, cfg, acc)
             ELSE IF CheckThrows(rule, prompt)
             THEN [acc EXCEPT !.threw = TRUE]
             ELSE AnalyzeRules(r + 1, prompt, filePath, cfg,
                      AnalyzeMatches(RuleCheck(rule, prompt), rule, filePath,
                                     scoreMitigations(prompt), acc))

\* the loop over the prompts
RECURSIVE AnalyzeUnits(_, _, _, _)
AnalyzeUnits(ps, filePath, cfg, acc) ==
    IF ps = <<>> \/ acc.threw THEN acc
    ELSE AnalyzeUnits(Tail(ps), filePath, cfg,
                      AnalyzeRules(1, Head(ps), filePath, cfg, acc))

\* analyzePrompt(prompts, filePath, config): [threw, findings]; when a check
\* throws the exception leaves analyzePrompt and nothing is returned
analyzePrompt(ps, filePath, cfg) ==
    LET r == AnalyzeUnits(ps, filePath, cfg,
                          [findings |-> <<>>, seen |-> {}, threw |-> FALSE])
    IN  [threw |-> r.threw, findings |-> IF r.threw THEN <<>> ELSE r.findings]

(***************************************************************************)
(* Scoring and aggregation                                                 *)
(***************************************************************************)

RECURSIVE scoreFile(_)
scoreFile(fs) == IF fs = <<>> THEN 0 ELSE Head(fs).riskPoints + scoreFile(Tail(fs))

scoreLabel(score) ==
    IF score < 30 THEN "low"
    ELSE IF score < 60 THEN "medium"
    ELSE IF score < 80 THEN "high"
    ELSE "critical"

RECURSIVE FileScores(_)
FileScores(frs) ==
    IF frs = <<>> THEN <<>> ELSE <<Head(frs).fileScore>> \o FileScores(Tail(frs))

RECURSIVE FindingsOf(_)
FindingsOf(frs) ==
    IF frs = <<>> THEN <<>> ELSE Head(frs).findings \o FindingsOf(Tail(frs))

rawTotal(frs) == SumSeq(FileScores(frs))

\* a repo score that is not capped
UncappedScore(frs) == rawTotal(frs)

\* const repoScore = Math.min(100, rawTotal)
RepoScore(frs) == Min(100, rawTotal(frs))

hasCritical(allFindings) ==
    \E i \in 1..Len(allFindings) : allFindings[i].severity = "critical"

\* a test for high that forgets critical
HighOnly(allFindings) ==
    \E i \in 1..Len(allFindings) : allFindings[i].severity = "high"

hasHighOrAbove(allFindings) ==
    \E i \in 1..Len(allFindings) :
        allFindings[i].severity = "high" \/ allFindings[i].severity = "critical"

hasMediumOrAbove(allFindings) ==
    \E i \in 1..Len(allFindings) : allFindings[i].severity # "low"

fileThresholdBreached(frs, cfg) ==
    /\ cfg.failFileThreshold # Unset
    /\ \E i \in 1..Len(frs) : frs[i].fileScore >= cfg.failFileThreshold

buildScanResult(frs, cfg) ==
    LET allFindings == FindingsOf(frs)
        repoScore == RepoScore(frs)
        passed0 == repoScore < cfg.threshold
        passed1 == IF cfg.failOn = "critical" /\ hasCritical(allFindings)
                   THEN FALSE ELSE passed0
        passed2 == IF cfg.failOn = "high" /\ hasHighOrAbove(allFindings)
                   THEN FALSE ELSE passed1
        passed3 == IF cfg.failOn = "medium" /\ hasMediumOrAbove(allFindings)
                   THEN FALSE ELSE passed2
        passed == IF fileThresholdBreached(frs, cfg) THEN FALSE ELSE passed3
    IN  [repoScore |-> repoScore, scoreLabel |-> scoreLabel(repoScore), files |-> frs,
         allFindings |-> allFindings, threshold |-> cfg.threshold, passed |-> passed,
         fileThresholdBreached |-> fileThresholdBreached(frs, cfg)]

(***************************************************************************)
(* Prompt extraction                                                       *)
(***************************************************************************)

Unit(text, lineStart, lineEnd, kind) ==
    [text |-> text, lineStart |-> lineStart, lineEnd |-> lineEnd, kind |-> kind]

\* SYSTEM_PHRASE_PATTERN.test(content): the phrases hold no line break
HasPhrase(lines) == \E i \in 1..Len(lines) : lines[i].phrase

\* a raw extraction whose length test starts at 50
extractFromRawFrom50(lines) ==
    IF HasPhrase(lines) \/ ContentLength(lines) >= 50
    THEN << Unit(lines, 1, Len(lines), "raw") >>
    ELSE <<>>

\* extractFromRaw
extractFromRaw(lines) ==
    IF HasPhrase(lines) \/ ContentLength(lines) > 50
    THEN << Unit(lines, 1, Len(lines), "raw") >>
    ELSE <<>>

\* extractFromStructured: lines.forEach from index i (1-based here; idx = i - 1)
\* a structured extraction whose window ends 19 lines after the hit
RECURSIVE StructuredFrom19(_, _)
StructuredFrom19(lines, i) ==
    IF i > Len(lines) THEN <<>>
    ELSE (IF lines[i].key
          THEN LET start == i - 1
                   end == Min((i - 1) + 19, Len(lines) - 1)
               IN  << Unit(SubSeq(lines, start + 1, end + 1), start + 1, end + 1,
                           "object-field") >>
          ELSE <<>>)
         \o StructuredFrom19(lines, i + 1)

extractFromStructured19(lines) == StructuredFrom19(lines, 1)

RECURSIVE StructuredFrom(_, _)
StructuredFrom(lines, i) ==
    IF i > Len(lines) THEN <<>>
    ELSE (IF lines[i].key
          THEN LET start == i - 1
                   end == Min((i - 1) + 20, Len(lines) - 1)
               IN  << Unit(SubSeq(lines, start + 1, end + 1), start + 1, end + 1,
                           "object-field") >>
          ELSE <<>>)
         \o StructuredFrom(lines, i + 1)

extractFromStructured(lines) == StructuredFrom(lines, 1)

\* PROMPT_KEY_PATTERN.test(text) on a text of several lines
HasKey(lines) == \E i \in 1..Len(lines) : lines[i].key

\* a tracker without the safety bail
TemplateStepNoBail(lines, i, T) ==
    IF ~T.inside /\ lines[i].ticks
    THEN [T |-> [inside |-> TRUE, start |-> i, lines |-> << lines[i] >>], out |-> <<>>]
    ELSE IF T.inside /\ lines[i].ticks
    THEN LET text == Append(T.lines, lines[i])
         IN  [T |-> [inside |-> FALSE, start |-> T.start, lines |-> <<>>],
              out |-> IF HasPhrase(text) \/ HasKey(text)
                      THEN << Unit(text, T.start, i, "template-string") >>
                      ELSE <<>>]
    ELSE IF T.inside
    THEN [T |-> [T EXCEPT !.lines = Append(T.lines, lines[i])], out |-> <<>>]
    ELSE [T |-> T, out |-> <<>>]

\* the template literal tracker at line i: T = [inside, start, lines] for
\* inTemplateLiteral, templateStart (1-based here) and templateLines
TemplateStep(lines, i, T) ==
    IF ~T.inside /\ lines[i].ticks
    THEN [T |-> [inside |-> TRUE, start |-> i, lines |-> << lines[i] >>], out |-> <<>>]
    ELSE IF T.inside /\ lines[i].ticks
    THEN LET text == Append(T.lines, lines[i])
         IN  [T |-> [inside |-> FALSE, start |-> T.start, lines |-> <<>>],
              out |-> IF HasPhrase(text) \/ HasKey(text)
                      THEN << Unit(text, T.start, i, "template-string") >>
                      ELSE <<>>]
    ELSE IF T.inside
    THEN IF Len(T.lines) + 1 > 200
         THEN [T |-> [inside |-> FALSE, start |-> T.start, lines |-> <<>>], out |-> <<>>]
         ELSE [T |-> [T EXCEPT !.lines = Append(T.lines, lines[i])], out |-> <<>>]
    ELSE [T |-> T, out |-> <<>>]

\* the chat-message unit of line i: up to 5 lines of context
ChatMessageAt(lines, i) ==
    IF lines[i].role
    THEN LET end == Min((i - 1) + 5, Len(lines) - 1)
         IN  << Unit(SubSeq(lines, i, end + 1), i, end + 1, "chat-message") >>
    ELSE <<>>

\* the object-field unit of line i: up to 15 lines of context
ObjectFieldAt(lines, i) ==
    IF lines[i].key /\ ~lines[i].role
    THEN LET end == Min((i - 1) + 15, Len(lines) - 1)
         IN  << Unit(SubSeq(lines, i, end + 1), i, end + 1, "object-field") >>
    ELSE <<>>

\* the loop of extractFromCode over the lines, from line i on
RECURSIVE CodeFrom(_, _, _)
CodeFrom(lines, i, T) ==
    IF i > Len(lines) THEN <<>>
    ELSE LET step == TemplateStep(lines, i, T)
         IN  step.out \o ChatMessageAt(lines, i) \o ObjectFieldAt(lines, i)
             \o CodeFrom(lines, i + 1, step.T)

\* one of the five trigger patterns matches the content
HasTrigger(lines) == \E i \in 1..Len(lines) : lines[i].trigger

\* extractFromCode: the units of the loop, then the whole file as a
\* code-block when a trigger pattern matches the content
extractFromCode(lines) ==
    CodeFrom(lines, 1, [inside |-> FALSE, start |-> 1, lines |-> <<>>])
    \o (IF HasTrigger(lines) THEN << Unit(lines, 1, Len(lines), "code-block") >> ELSE <<>>)

\* path.extname(filePath).toLowerCase() of the paths of the tree
ExtName(filePath) ==
    CASE filePath = "a.json" -> ".json"
      [] filePath = "b.txt" -> ".txt"
      [] filePath = "c.ts" -> ".ts"
      [] filePath = "d.py" -> ".py"
      [] filePath = "e.log" -> ".log"

isCodeFile(filePath) == ExtName(filePath) \in {".ts", ".js", ".tsx", ".jsx"}

isRawPromptFile(filePath) == ExtName(filePath) \in {".prompt", ".txt", ".md"}

IsStructuredFile(filePath) == ExtName(filePath) \in {".json", ".yaml", ".yml"}

\* extractPrompts on a file of the tree; a failed read gives no unit
extractPrompts(t, filePath) ==
    IF ~t[filePath].readable THEN <<>>
    ELSE IF isRawPromptFile(filePath) THEN extractFromRaw(t[filePath].lines)
    ELSE IF IsStructuredFile(filePath) THEN extractFromStructured(t[filePath].lines)
    ELSE IF isCodeFile(filePath) THEN extractFromCode(t[filePath].lines)
    ELSE extractFromRaw(t[filePath].lines)

(***************************************************************************)
(* The scanned tree                                                        *)
(***************************************************************************)

\* the paths the include globs can match
Paths == {"a.json", "b.txt", "c.ts", "d.py", "e.log"}

\* files.sort(): UTF-16 code unit order of the paths
SortRank(filePath) ==
    CASE filePath = "a.json" -> 1 [] filePath = "b.txt" -> 2 [] filePath = "c.ts" -> 3
      [] filePath = "d.py" -> 4 [] filePath = "e.log" -> 5

\* a.file.localeCompare(b.file) < 0
LocaleLess(a, b) == SortRank(a) < SortRank(b)

MaxMtime == 2

Plain == Line(10, FALSE, FALSE, {}, {}, {})
KeyHit == Line(30, TRUE, FALSE, {Str_INJ001}, {}, {})
Boom == Line(30, TRUE, TRUE, {}, {Str_INJ002}, {})
Short == Line(40, FALSE, FALSE, {Str_JBK001}, {}, {})
LongHit == Line(60, FALSE, FALSE, {Str_JBK001}, {}, {})

\* the contents a file of the tree can have
Contents(p) ==
    CASE p = "a.json" -> { <<Plain>>, <<KeyHit, KeyHit>>, <<Boom>> }
      [] p = "b.txt" -> { <<Short>>, <<LongHit>> }
      [] OTHER -> {}

\* a path the include globs match no file at
AbsentFile == [present |-> FALSE, readable |-> FALSE, mtime |-> 0, lines |-> <<Plain>>]

\* a file of the tree: readable, unreadable (the read fails, stat works) or
\* absent; the trees of the repeated scans hold a.json and b.txt only
FileStates(p) ==
    [present : {TRUE}, readable : {TRUE}, mtime : 1..MaxMtime, lines : Contents(p)]
    \cup (IF p = "a.json"
          THEN [present : {TRUE}, readable : {FALSE}, mtime : 1..MaxMtime, lines : {<<Plain>>}]
               \cup {AbsentFile}
          ELSE IF p = "b.txt" THEN {} ELSE {AbsentFile})

Trees == {[p \in Paths |-> IF p = "a.json" THEN x ELSE IF p = "b.txt" THEN y ELSE AbsentFile] :
             x \in FileStates("a.json"), y \in FileStates("b.txt")}

\* discoverFiles: the present paths, sorted
RECURSIVE SortedSeq(_)
SortedSeq(S) ==
    IF S = {} THEN <<>>
    ELSE LET m == CHOOSE x \in S : \A y \in S : SortRank(x) <= SortRank(y)
         IN  <<m>> \o SortedSeq(S \ {m})

discoverFiles(t) == SortedSeq({p \in Paths : t[p].present})

(***************************************************************************)
(* Incremental cache                                                       *)
(***************************************************************************)

NoEntry == [present |-> FALSE, mtime |-> 0, findings |-> <<>>]

Entry(mtime, fs) == [present |-> TRUE, mtime |-> mtime, findings |-> fs]

\* a parsed cache: hasEntries is FALSE when the JSON object has no "entries"
HoundCache(version, hasEntries, entries) ==
    [version |-> version, hasEntries |-> hasEntries, entries |-> entries]

NoEntries == [p \in Paths |-> NoEntry]

\* { version: CACHE_VERSION, entries: {} }
EMPTY_CACHE == HoundCache("1", TRUE, NoEntries)

\* the cache file: missing, not JSON, or a JSON object
MissingFile == [kind |-> "missing", json |-> EMPTY_CACHE]
GarbageFile == [kind |-> "garbage", json |-> EMPTY_CACHE]
JsonFile(c) == [kind |-> "json", json |-> c]

loadCache(file) ==
    IF file.kind = "missing" THEN EMPTY_CACHE
    ELSE IF file.kind = "garbage" THEN EMPTY_CACHE
    ELSE IF file.json.version # "1" THEN EMPTY_CACHE
    ELSE file.json

\* a save that drops the entries of the paths that are no longer in the tree
saveCachePruned(file, c, writeOk) ==
    IF writeOk
    THEN JsonFile([c EXCEPT !.entries =
                      [p \in Paths |-> IF tree[p].present THEN c.entries[p] ELSE NoEntry]])
    ELSE file

\* saveCache: JSON.stringify of the cache; a failed write leaves the file as it was
saveCache(file, c, writeOk) == IF writeOk THEN JsonFile(c) ELSE file

\* a lookup that does not compare modification times
getCachedFindingsAnyMtime(c, t, filePath) ==
    IF ~c.hasEntries THEN [threw |-> TRUE, hit |-> FALSE, findings |-> <<>>]
    ELSE LET entry == c.entries[filePath]
         IN  IF ~entry.present THEN [threw |-> FALSE, hit |-> FALSE, findings |-> <<>>]
             ELSE [threw |-> FALSE, hit |-> TRUE, findings |-> entry.findings]

\* getCachedFindings: [threw, hit, findings]; cache.entries[filePath] throws a
\* TypeError when the cache object has no entries
getCachedFindings(c, t, filePath) ==
    IF ~c.hasEntries THEN [threw |-> TRUE, hit |-> FALSE, findings |-> <<>>]
    ELSE LET entry == c.entries[filePath]
         IN  IF ~entry.present THEN [threw |-> FALSE, hit |-> FALSE, findings |-> <<>>]
             ELSE IF t[filePath].present /\ t[filePath].mtime = entry.mtime
             THEN [threw |-> FALSE, hit |-> TRUE, findings |-> entry.findings]
             ELSE [threw |-> FALSE, hit |-> FALSE, findings |-> <<>>]

\* a store that records the mtime and forgets the findings
setCacheEntryEmpty(c, t, filePath, fs) ==
    IF c.hasEntries /\ t[filePath].present
    THEN [c EXCEPT !.entries[filePath] = Entry(t[filePath].mtime, <<>>)]
    ELSE c

\* a store that keeps an entry it already has
setCacheEntryOnce(c, t, filePath, fs) ==
    IF c.hasEntries /\ t[filePath].present /\ ~c.entries[filePath].present
    THEN [c EXCEPT !.entries[filePath] = Entry(t[filePath].mtime, fs)]
    ELSE c

\* setCacheEntry: a failing stat, or a cache without entries, is swallowed
setCacheEntry(c, t, filePath, fs) ==
    IF c.hasEntries /\ t[filePath].present
    THEN [c EXCEPT !.entries[filePath] = Entry(t[filePath].mtime, fs)]
    ELSE c

(***************************************************************************)
(* Plugins.  A plugin module either fails to load (require throws) or      *)
(* exports a value, directly or as `default`.  A value is an array of      *)
(* elements or a single element; an element is                             *)
(*   "rule"      an object whose check is a function                       *)
(*   "badcheck"  an object with a check property that is not a function    *)
(*   "nocheck"   an object without a check property                        *)
(*   "number"    not an object                                             *)
(***************************************************************************)

Str_PLG001 == <<"P", "L", "G", "-", "0", "0", "1">>
Str_PLG002 == <<"P", "L", "G", "-", "0", "0", "2">>

Element(kind, id) == [kind |-> kind, id |-> id, severity |-> "high", confidence |-> "high"]

PluginModule(loads, isArray, elems) == [loads |-> loads, isArray |-> isArray, elems |-> elems]

\* the body of the loop of loadPluginRules for one plugin: the rules it pushes
PluginExport(plugin) ==
    IF ~plugin.loads THEN <<>>
    ELSE IF plugin.isArray THEN plugin.elems
    ELSE IF plugin.elems[1].kind \in {"rule", "badcheck"} THEN << plugin.elems[1] >>
    ELSE <<>>

RECURSIVE loadPluginRules(_)
loadPluginRules(plugins) ==
    IF plugins = <<>> THEN <<>>
    ELSE PluginExport(Head(plugins)) \o loadPluginRules(Tail(plugins))

\* pluginRules is undefined when the config names no plugin
NoPluginRules == [defined |-> FALSE, rules |-> <<>>]

\* config.plugins?.length ? await loadPluginRules(config.plugins, cwd) : undefined
PluginRulesOf(cfg) ==
    IF Len(cfg.plugins) > 0
    THEN [defined |-> TRUE, rules |-> loadPluginRules(cfg.plugins)]
    ELSE NoPluginRules

(***************************************************************************)
(* runScan: the per-file task                                              *)
(***************************************************************************)

\* const concurrency = config.concurrency ?? 8
Concurrency(cfg) == IF cfg.concurrency = Unset THEN 8 ELSE cfg.concurrency

\* config.maxFindings && totalFindings >= config.maxFindings
MaxFindingsReached(cfg, total) ==
    cfg.maxFindings # Unset /\ cfg.maxFindings # 0 /\ total >= cfg.maxFindings

\* a recording that does not stream the findings to onFinding
RecordSilent(S, cfg, filePath, fs, how) ==
    LET total == S.totalFindings + Len(fs)
    IN  [S EXCEPT !.fileResults = Append(S.fileResults,
                      [file |-> filePath, findings |-> fs, fileScore |-> scoreFile(fs)]),
                  !.totalFindings = total,
                  !.aborted = S.aborted \/ MaxFindingsReached(cfg, total),
                  !.taskState[filePath] = how]

\* onFinding for each finding, fileResults.push, totalFindings +=, the soft stop
Record(S, cfg, filePath, fs, how) ==
    LET total == S.totalFindings + Len(fs)
    IN  [S EXCEPT !.emitted = S.emitted \o fs,
                  !.fileResults = Append(S.fileResults,
                      [file |-> filePath, findings |-> fs, fileScore |-> scoreFile(fs)]),
                  !.totalFindings = total,
                  !.aborted = S.aborted \/ MaxFindingsReached(cfg, total),
                  !.taskState[filePath] = how]

\* the task from the cache miss on
TaskMiss(S, cfg, t, filePath) ==
    LET ps == extractPrompts(t, filePath)
        S1 == [S EXCEPT !.extracted = S.extracted \cup {filePath}]
    IN  IF ps = <<>>
        THEN [S1 EXCEPT !.cache = IF cfg.cache THEN setCacheEntry(S.cache, t, filePath, <<>>)
                                  ELSE S.cache,
                        !.taskState[filePath] = "empty"]
        ELSE LET a == analyzePrompt(ps, filePath, cfg)
                 S2 == [S1 EXCEPT !.dispatched = S1.dispatched \cup {filePath}]
                 S3 == [S2 EXCEPT !.cache = IF cfg.cache
                                            THEN setCacheEntry(S.cache, t, filePath, a.findings)
                                            ELSE S.cache]
             IN  IF a.threw THEN [S2 EXCEPT !.taskState[filePath] = "threw"]
                 ELSE IF a.findings = <<>> THEN [S3 EXCEPT !.taskState[filePath] = "clean"]
                 ELSE IF S3.aborted THEN [S3 EXCEPT !.taskState[filePath] = "dropped"]
                 ELSE Record(S3, cfg, filePath, a.findings, "found")

\* the body of the task of one file; it has no await, so it runs in one piece.
\* taskState[filePath] = "threw" says the task's promise is rejected.
RunTask(S, cfg, t, filePath) ==
    IF S.aborted THEN [S EXCEPT !.taskState[filePath] = "skipped"]
    ELSE IF cfg.cache
    THEN LET cached == getCachedFindings(S.cache, t, filePath)
         IN  IF cached.threw THEN [S EXCEPT !.taskState[filePath] = "threw"]
             ELSE IF cached.hit
             THEN IF Len(cached.findings) > 0
                  THEN Record(S, cfg, filePath, cached.findings, "hit")
                  ELSE [S EXCEPT !.taskState[filePath] = "hit"]
             ELSE TaskMiss(S, cfg, t, filePath)
    ELSE TaskMiss(S, cfg, t, filePath)

(***************************************************************************)
(* createLimiter                                                           *)
(***************************************************************************)

\* a drain loop that starts the task queued last
RECURSIVE nextLifo(_, _, _)
nextLifo(L, cfg, t) ==
    IF Len(L.queue) > 0 /\ L.active < Concurrency(cfg)
    THEN LET filePath == L.queue[Len(L.queue)]
             S1 == RunTask(L.S, cfg, t, filePath)
         IN  nextLifo([S |-> S1, queue |-> SubSeq(L.queue, 1, Len(L.queue) - 1),
                       active |-> L.active + 1,
                       micro |-> Append(L.micro, S1.taskState[filePath] = "threw")],
                      cfg, t)
    ELSE L

\* a drain loop that admits one task too many
RECURSIVE nextOffByOne(_, _, _)
nextOffByOne(L, cfg, t) ==
    IF Len(L.queue) > 0 /\ L.active <= Concurrency(cfg)
    THEN LET filePath == Head(L.queue)
             S1 == RunTask(L.S, cfg, t, filePath)
         IN  nextOffByOne([S |-> S1, queue |-> Tail(L.queue), active |-> L.active + 1,
                           micro |-> Append(L.micro, S1.taskState[filePath] = "threw")],
                          cfg, t)
    ELSE L

\* next(): while (queue.length > 0 && active < concurrency) { active++; queue.shift()!() }
\* The thunk runs the task at once; the .finally callback of its promise is
\* queued behind the callbacks already pending.
\* L = [S, queue, active, micro]
RECURSIVE next(_, _, _)
next(L, cfg, t) ==
    IF Len(L.queue) > 0 /\ L.active < Concurrency(cfg)
    THEN LET filePath == Head(L.queue)
             S1 == RunTask(L.S, cfg, t, filePath)
         IN  next([S |-> S1, queue |-> Tail(L.queue), active |-> L.active + 1,
                   micro |-> Append(L.micro, S1.taskState[filePath] = "threw")],
                  cfg, t)
    ELSE L

\* limit(fn): queue.push(thunk); next()
limit(L, cfg, t, filePath) ==
    next([L EXCEPT !.queue = Append(L.queue, filePath),
                   !.S.taskState[filePath] = "queued"], cfg, t)

\* the .finally callback: active--; next()
finally(L, cfg, t) ==
    next([L EXCEPT !.active = L.active - 1, !.micro = Tail(L.micro)], cfg, t)

(***************************************************************************)
(* runScan                                                                 *)
(***************************************************************************)

NoResult ==
    [repoScore |-> Unset, scoreLabel |-> "none", files |-> <<>>, allFindings |-> <<>>,
     threshold |-> Unset, passed |-> FALSE, fileThresholdBreached |-> FALSE]

\* fileResults.sort((a, b) => a.file.localeCompare(b.file)); the sort is stable
RECURSIVE InsertSorted(_, _)
InsertSorted(fr, sorted) ==
    IF sorted = <<>> THEN <<fr>>
    ELSE IF LocaleLess(fr.file, Head(sorted).file) THEN <<fr>> \o sorted
    ELSE <<Head(sorted)>> \o InsertSorted(fr, Tail(sorted))

RECURSIVE SortByFile(_)
SortByFile(frs) ==
    IF frs = <<>> THEN <<>>
    ELSE InsertSorted(frs[Len(frs)], SortByFile(SubSeq(frs, 1, Len(frs) - 1)))

\* the state a call of runScan starts from (lines 89-98)
ScanStart(cfg, file) ==
    [cache |-> IF cfg.cache THEN loadCache(file) ELSE EMPTY_CACHE,
     fileResults |-> <<>>, totalFindings |-> 0, aborted |-> FALSE,
     extracted |-> {}, dispatched |-> {}, emitted |-> <<>>,
     taskState |-> [p \in Paths |-> "none"]]

\* the limiter and the scan state as one record
Limiter ==
    [S |-> [cache |-> cache, fileResults |-> fileResults, totalFindings |-> totalFindings,
            aborted |-> aborted, extracted |-> extracted, dispatched |-> dispatched,
            emitted |-> emitted, taskState |-> taskState],
     queue |-> queue, active |-> active, micro |-> micro]

SetLimiter(L) ==
    /\ cache' = L.S.cache
    /\ fileResults' = L.S.fileResults
    /\ totalFindings' = L.S.totalFindings
    /\ aborted' = L.S.aborted
    /\ extracted' = L.S.extracted
    /\ dispatched' = L.S.dispatched
    /\ emitted' = L.S.emitted
    /\ taskState' = L.S.taskState
    /\ queue' = L.queue
    /\ active' = L.active
    /\ micro' = L.micro

\* no call of runScan is running, and no task of an earlier call is left
Quiet == pc \in {"idle", "returned", "rejected"} /\ micro = <<>> /\ queue = <<>>

\* the configurations runScan is called with
ScanConfigs ==
    [cache : BOOLEAN, concurrency : {Unset, 1}, maxFindings : {Unset, 2},
     excludeRules : {<<>>, << <<"I", "N", "J", "-", "*">> >>}, includeRules : {<<>>}, plugins : {<<>>},
     minConfidence : {"unset"}, threshold : {60}, failOn : {"unset"},
     failFileThreshold : {Unset}]
    \cup [cache : {TRUE}, concurrency : {0}, maxFindings : {Unset},
          excludeRules : {<<>>}, includeRules : {<<>>}, plugins : {<<>>},
          minConfidence : {"unset"}, threshold : {60}, failOn : {"unset"},
          failFileThreshold : {Unset}]

\* files.map(file => limit(task of file)): one synchronous pass over the files
RECURSIVE MapLimit(_, _, _, _)
MapLimit(L, cfg, t, fileList) ==
    IF fileList = <<>> THEN L
    ELSE MapLimit(limit(L, cfg, t, Head(fileList)), cfg, t, Tail(fileList))

\* runScan up to `await Promise.all(tasks)`: discovery, cache load, limiter
\* creation and files.map
StartScan(cfg) ==
    /\ Quiet
    /\ config' = cfg
    /\ SetLimiter(MapLimit([S |-> ScanStart(cfg, cacheFile), queue |-> <<>>, active |-> 0,
                            micro |-> <<>>], cfg, tree, discoverFiles(tree)))
    /\ result' = NoResult
    /\ pc' = "await"
    /\ pluginRules' = PluginRulesOf(cfg)
    /\ cacheIO' = [reads |-> IF cfg.cache THEN 1 ELSE 0, writes |-> 0]
    /\ UNCHANGED <<tree, cacheFile, prompts, findings, prev, started, promise, tracker>>

\* a pending .finally callback runs; the rejection of its task rejects
\* Promise.all(tasks), and with it the call of runScan
Finally ==
    /\ pc \in {"await", "rejected"}
    /\ micro # <<>>
    /\ SetLimiter(finally(Limiter, config, tree))
    /\ pc' = IF Head(micro) THEN "rejected" ELSE pc
    /\ UNCHANGED <<tree, pluginRules, cacheIO, started, promise, tracker, cacheFile, config, result, prompts, findings, prev>>

\* the findings the scan holds for a file (none when it pushed no FileResult)
ReturnedFor(frs, p) ==
    IF \E i \in 1..Len(frs) : frs[i].file = p
    THEN frs[CHOOSE i \in 1..Len(frs) : frs[i].file = p].findings
    ELSE <<>>

Processed(p) == taskState[p] \in {"hit", "empty", "clean", "found"}

\* history: per file, what the last completed scan that persisted its cache and
\* processed the file saw as mtime and returned as findings
NoHistory == [p \in Paths |-> [known |-> FALSE, mtime |-> 0, findings |-> <<>>]]

History(persisted) ==
    [p \in Paths |->
        IF persisted /\ Processed(p)
        THEN [known |-> TRUE, mtime |-> tree[p].mtime,
              findings |-> ReturnedFor(fileResults, p)]
        ELSE prev[p]]

\* Promise.all(tasks) is fulfilled: saveCache, sort, buildScanResult
Return(writeOk) ==
    /\ pc = "await"
    /\ micro = <<>>
    /\ queue = <<>>
    /\ cacheFile' = IF config.cache THEN saveCache(cacheFile, cache, writeOk) ELSE cacheFile
    /\ fileResults' = SortByFile(fileResults)
    /\ result' = buildScanResult(SortByFile(fileResults), config)
    /\ prev' = History(config.cache /\ writeOk)
    /\ cacheIO' = [cacheIO EXCEPT !.writes = @ + (IF config.cache THEN 1 ELSE 0)]
    /\ pc' = "returned"
    /\ UNCHANGED <<tree, pluginRules, started, promise, tracker, config, cache, queue, active, micro, totalFindings, aborted,
                   extracted, dispatched, emitted, prompts, findings, taskState>>

\* no call of loadCache or saveCache yet
NoCacheIO == [reads |-> 0, writes |-> 0]

\* the tracker of extractFromCode before its first line: i lines were read,
\* `read` is the last of them
NoTracker == [i |-> 0, inside |-> FALSE, start |-> 1, lines |-> <<>>, read |-> <<>>]

DefaultConfig ==
    [cache |-> TRUE, concurrency |-> Unset, maxFindings |-> Unset, excludeRules |-> <<>>,
     includeRules |-> <<>>, plugins |-> <<>>, minConfidence |-> "unset", threshold |-> 60,
     failOn |-> "unset", failFileThreshold |-> Unset]

\* the variables of runScan while no call is under way
NoScan ==
    /\ config = DefaultConfig
    /\ cache = EMPTY_CACHE
    /\ fileResults = <<>>
    /\ totalFindings = 0
    /\ aborted = FALSE
    /\ extracted = {}
    /\ dispatched = {}
    /\ emitted = <<>>
    /\ taskState = [p \in Paths |-> "none"]
    /\ queue = <<>>
    /\ active = 0
    /\ micro = <<>>
    /\ result = NoResult
    /\ pluginRules = NoPluginRules
    /\ cacheIO = NoCacheIO
    /\ started = <<>>
    /\ promise = [p \in Paths |-> "none"]
    /\ tracker = NoTracker

\* between two scans a file is written, touched, created or deleted; a write
\* or a touch changes the modification time.  The finished call is forgotten.
Modify(p, st) ==
    /\ Quiet
    /\ st # tree[p]
    /\ (st.present /\ tree[p].present) => st.mtime # tree[p].mtime
    /\ tree' = [tree EXCEPT ![p] = st]
    /\ pc' = "idle"
    /\ config' = DefaultConfig
    /\ SetLimiter([S |-> ScanStart(DefaultConfig, MissingFile), queue |-> <<>>,
                   active |-> 0, micro |-> <<>>])
    /\ result' = NoResult
    /\ pluginRules' = NoPluginRules
    /\ cacheIO' = NoCacheIO
    /\ UNCHANGED <<cacheFile, prompts, findings, prev, started, promise, tracker>>

Init ==
    /\ tree \in Trees
    /\ cacheFile \in {MissingFile, GarbageFile,
                      JsonFile(HoundCache("0", TRUE, NoEntries)),
                      JsonFile(HoundCache("1", FALSE, NoEntries))}
    /\ pc = "idle"
    /\ NoScan
    /\ prev = NoHistory
    /\ prompts = <<>>
    /\ findings = <<>>

Next ==
    \/ \E cfg \in ScanConfigs : StartScan(cfg)
    \/ Finally
    \/ \E writeOk \in BOOLEAN : Return(writeOk)
    \/ \E p \in Paths : \E st \in FileStates(p) : Modify(p, st)

Spec == Init /\ [][Next]_vars

(***************************************************************************)
(* buildScanResult on its own: file results are pushed as runScan pushes   *)
(* them (fileScore = scoreFile(findings)), then the result is built.       *)
(***************************************************************************)

MaxFileResults == 5

ScoreFileNames == <<"f1.ts", "f2.ts", "f3.ts", "f4.ts", "f5.ts", "f6.ts", "f7.ts", "f8.ts">>

\* one finding of each severity, from a rule of confidence high, no mitigation
SampleFinding(severity, filePath) ==
    ruleToFinding([id |-> Str_INJ001, severity |-> severity, confidence |-> "high"],
                  [lineStart |-> 1, lineEnd |-> 1], filePath)

ScoreConfigs ==
    [cache : {TRUE}, concurrency : {Unset}, maxFindings : {Unset}, excludeRules : {<<>>},
     includeRules : {<<>>}, plugins : {<<>>}, minConfidence : {"unset"}, threshold : {60},
     failOn : {"unset", "critical", "high", "medium"}, failFileThreshold : {Unset, 30}]

InitScore ==
    /\ tree = CHOOSE t \in Trees : TRUE
    /\ cacheFile = MissingFile
    /\ pc = "score"
    /\ NoScan
    /\ prev = NoHistory
    /\ prompts = <<>>
    /\ findings = <<>>

\* the configuration of the call is chosen
ChooseConfig(cfg) ==
    /\ pc = "score"
    /\ config' = cfg
    /\ pc' = "push"
    /\ UNCHANGED <<tree, pluginRules, cacheIO, started, promise, tracker, cacheFile, cache, queue, active, micro, fileResults, totalFindings,
                   aborted, result, extracted, dispatched, emitted, prompts, findings,
                   taskState, prev>>

\* fileResults.push({ file, findings, fileScore }) with scoreFile(findings)
PushFileResult(severity) ==
    /\ pc = "push"
    /\ Len(fileResults) < MaxFileResults
    /\ LET filePath == ScoreFileNames[Len(fileResults) + 1]
           fs == << SampleFinding(severity, filePath) >>
       IN  fileResults' = Append(fileResults,
               [file |-> filePath, findings |-> fs, fileScore |-> scoreFile(fs)])
    /\ UNCHANGED <<tree, pluginRules, cacheIO, started, promise, tracker, cacheFile, config, pc, cache, queue, active, micro, totalFindings,
                   aborted, result, extracted, dispatched, emitted, prompts, findings,
                   taskState, prev>>

\* return buildScanResult(fileResults, config)
BuildResult ==
    /\ pc = "push"
    /\ result' = buildScanResult(fileResults, config)
    /\ pc' = "scored"
    /\ UNCHANGED <<tree, pluginRules, cacheIO, started, promise, tracker, cacheFile, config, cache, queue, active, micro, fileResults,
                   totalFindings, aborted, extracted, dispatched, emitted, prompts,
                   findings, taskState, prev>>

NextScore ==
    \/ \E cfg \in ScoreConfigs : ChooseConfig(cfg)
    \/ \E severity \in Severities : PushFileResult(severity)
    \/ BuildResult

SpecScore == InitScore /\ [][NextScore]_vars

\* severity order low < medium < high < critical
SeverityRank(severity) ==
    CASE severity = "low" -> 0 [] severity = "medium" -> 1
      [] severity = "high" -> 2 [] severity = "critical" -> 3

ScoredFindings == UNION {{fileResults[i].findings[k] : k \in 1..Len(fileResults[i].findings)} :
                            i \in 1..Len(fileResults)}

\* C1: buildScanResult sets passed exactly when repoScore < threshold, and
\* failOn is unset or no finding has a severity at or above failOn, and
\* failFileThreshold is unset or every fileScore is below it;
\* fileThresholdBreached is set exactly when some fileScore >= failFileThreshold.
C1_PassedExactly ==
    pc = "scored" =>
        /\ result.passed <=>
              /\ result.repoScore < config.threshold
              /\ \/ config.failOn = "unset"
                 \/ \A f \in ScoredFindings :
                        SeverityRank(f.severity) < SeverityRank(config.failOn)
              /\ \/ config.failFileThreshold = Unset
                 \/ \A i \in 1..Len(fileResults) :
                        fileResults[i].fileScore < config.failFileThreshold
        /\ result.fileThresholdBreached <=>
              /\ config.failFileThreshold # Unset
              /\ \E i \in 1..Len(fileResults) :
                     fileResults[i].fileScore >= config.failFileThreshold

\* C1 witness: repoScore 50 under threshold 60, failOn = critical with one
\* critical finding: not passed, and no file threshold involved
C1_Witness ==
    /\ pc = "scored"
    /\ config.failOn = "critical"
    /\ config.failFileThreshold = Unset
    /\ result.repoScore = 50
    /\ config.threshold = 60
    /\ Len(fileResults) = 1
    /\ fileResults[1].findings[1].severity = "critical"
    /\ ~result.passed
    /\ ~result.fileThresholdBreached

\* C2: repoScore = min(100, sum of the file scores), so 0 <= repoScore <= 100
C2_RepoScoreCapped ==
    pc = "scored" =>
        LET total == SumSeq([i \in 1..Len(fileResults) |-> fileResults[i].fileScore])
        IN  /\ result.repoScore = (IF total > 100 THEN 100 ELSE total)
            /\ result.repoScore >= 0
            /\ result.repoScore <= 100

\* C2 witness: five files scoring 50 each give 100, not 250
C2_Witness ==
    /\ pc = "scored"
    /\ Len(fileResults) = 5
    /\ \A i \in 1..5 : fileResults[i].fileScore = 50
    /\ result.repoScore = 100

(***************************************************************************)
(* analyzePrompt on its own: a list of one-line prompt units of one file,  *)
(* every rule matching every line, each unit with any set of mitigations.  *)
(***************************************************************************)

MaxUnits == 2

AllChecks == 1..Len(MitigationReduction)

\* unit k of the list: one line, at line 1 or at line k, with the wording of
\* the mitigation checks `mit`
SampleUnit(k, lineStart, mit) ==
    Unit(<< Line(30, TRUE, FALSE, RuleIds, {}, mit) >>, lineStart, lineStart, "object-field")

UnitLists ==
    UNION {{ps \in [1..n -> UNION {{SampleUnit(k, l, m) : l \in {1, k}, m \in SUBSET AllChecks} :
                                      k \in 1..n}] :
               \A k \in 1..n : ps[k].lineStart \in {1, k}} : n \in 1..MaxUnits}

InitDispatch ==
    /\ tree = CHOOSE t \in Trees : TRUE
    /\ cacheFile = MissingFile
    /\ pc = "dispatch"
    /\ NoScan
    /\ prev = NoHistory
    /\ prompts \in UnitLists
    /\ findings = <<>>

\* findings = analyzePrompt(prompts, file, config)
Dispatch ==
    /\ pc = "dispatch"
    /\ LET a == analyzePrompt(prompts, "a.json", config)
       IN  /\ findings' = a.findings
           /\ pc' = IF a.threw THEN "threw" ELSE "dispatched"
    /\ UNCHANGED <<tree, pluginRules, cacheIO, started, promise, tracker, cacheFile, config, cache, queue, active, micro, fileResults,
                   totalFindings, aborted, result, extracted, dispatched, emitted, prompts,
                   taskState, prev>>

NextDispatch == Dispatch

SpecDispatch == InitDispatch /\ [][NextDispatch]_vars

\* the first unit of the list in which the rule of finding f matches at its line
ProducerOf(f) ==
    prompts[CHOOSE k \in 1..Len(prompts) :
        /\ \E i \in 1..Len(prompts[k].text) :
              /\ f.id \in prompts[k].text[i].hits
              /\ prompts[k].lineStart + (i - 1) = f.lineStart
        /\ \A j \in 1..(k - 1) : ~ \E i \in 1..Len(prompts[j].text) :
              /\ f.id \in prompts[j].text[i].hits
              /\ prompts[j].lineStart + (i - 1) = f.lineStart]

\* the sum of the reductions of the checks whose wording the unit holds
TotalOf(unit) ==
    LET present == {c \in AllChecks : \E i \in 1..Len(unit.text) : c \in unit.text[i].mit}
        red == [c \in AllChecks |-> CASE c = 1 -> 15 [] c = 2 -> 20 [] c = 3 -> 15
                                      [] c = 4 -> 10 [] c = 5 -> 10]
        RECURSIVE Sum(_)
        Sum(S) == IF S = {} THEN 0
                  ELSE LET c == CHOOSE x \in S : TRUE IN red[c] + Sum(S \ {c})
    IN  Sum(present)

\* base = round(weight * multiplier), with the multiplier in hundredths
BaseOf(f) ==
    LET w == CASE f.severity = "low" -> 5 [] f.severity = "medium" -> 15
               [] f.severity = "high" -> 30 [] f.severity = "critical" -> 50
        c == CASE f.confidence = "low" -> 50 [] f.confidence = "medium" -> 75
               [] f.confidence = "high" -> 100
    IN  (w * c + 50) \div 100

\* C4: every Finding has riskPoints = max(1, round(base * (1 - m/100))), m the
\* mitigation total of the unit that produced it, hence 1 <= riskPoints <= base
C4_RiskPointsFormula ==
    pc = "dispatched" =>
        \A n \in 1..Len(findings) :
            LET f == findings[n]
                base == BaseOf(f)
                m == TotalOf(ProducerOf(f))
                exact == (base * (100 - m) + 50) \div 100
            IN  /\ f.riskPoints = (IF exact < 1 THEN 1 ELSE exact)
                /\ 1 <= f.riskPoints
                /\ f.riskPoints <= base

(***************************************************************************)
(* Properties of runScan (specification Spec)                              *)
(***************************************************************************)

\* the scan under way, or just returned, works with the cache
Caching == pc \in {"await", "returned"} /\ config.cache

\* the entry of a file in the cache as the scan under way loaded it
LoadedEntry(p) == loadCache(cacheFile).entries[p]

\* the units of file p that hold line n with a match of rule id there
UnitsMatching(p, id, n) ==
    LET ps == extractPrompts(tree, p)
    IN  {k \in 1..Len(ps) :
            /\ ps[k].lineStart <= n
            /\ n <= ps[k].lineEnd
            /\ id \in ps[k].text[n - ps[k].lineStart + 1].hits}

\* C3: in the ScanResult of a scan no two findings of allFindings share the
\* triple (rule id, file, lineStart)
C3_NoDuplicateFindings ==
    pc = "returned" =>
        \A i, j \in 1..Len(result.allFindings) :
            (/\ result.allFindings[i].id = result.allFindings[j].id
             /\ result.allFindings[i].file = result.allFindings[j].file
             /\ result.allFindings[i].lineStart = result.allFindings[j].lineStart)
            => i = j

\* C3 witness: two overlapping units of a.json hold line 2 and INJ-001 matches
\* there in both; the returned result has one finding for it
C3_Witness ==
    /\ pc = "returned"
    /\ "a.json" \in dispatched
    /\ Cardinality(UnitsMatching("a.json", Str_INJ001, 2)) >= 2
    /\ Cardinality({i \in 1..Len(result.allFindings) :
                       /\ result.allFindings[i].id = Str_INJ001
                       /\ result.allFindings[i].file = "a.json"
                       /\ result.allFindings[i].lineStart = 2}) = 1

\* the scan waits on queued tasks that nothing will start
Hung == pc = "await" /\ micro = <<>> /\ queue # <<>>

\* C5: runScan always terminates by returning a ScanResult: the call is never
\* rejected and never left waiting on queued tasks
C5_ScanAlwaysReturns == pc # "rejected" /\ ~Hung

\* C6: a rule's check that throws while one file is dispatched does not abort
\* the scan
C6_RuleThrowKeepsScan ==
    \A p \in Paths : (taskState[p] = "threw" /\ p \in dispatched) => pc # "rejected"

\* C7: cache fidelity.  In a scan that works with the cache, a processed file
\* is a hit exactly when the loaded cache has an entry for it with the file's
\* current mtime; a hit returns the entry's findings and calls neither
\* extraction nor dispatch; and when the last scan that persisted its cache and
\* processed the file saw the same mtime, the file is a hit and the scan holds
\* for it exactly the findings that scan returned.
C7_CacheFidelity ==
    (pc = "await" /\ config.cache) =>
        \A p \in Paths : Processed(p) =>
            /\ taskState[p] = "hit" <=>
                  (LoadedEntry(p).present /\ LoadedEntry(p).mtime = tree[p].mtime)
            /\ taskState[p] = "hit" =>
                  /\ p \notin extracted
                  /\ p \notin dispatched
                  /\ ReturnedFor(fileResults, p) = LoadedEntry(p).findings
            /\ (prev[p].known /\ prev[p].mtime = tree[p].mtime) =>
                  /\ taskState[p] = "hit"
                  /\ ReturnedFor(fileResults, p) = prev[p].findings

\* C7 witness: a file with findings is served from the cache in a second scan
C7_Witness ==
    /\ pc = "await"
    /\ config.cache
    /\ prev["a.json"].known
    /\ prev["a.json"].mtime = tree["a.json"].mtime
    /\ prev["a.json"].findings # <<>>
    /\ taskState["a.json"] = "hit"
    /\ ReturnedFor(fileResults, "a.json") = prev["a.json"].findings
    /\ "a.json" \notin extracted

\* C8: invalidation is per file.  A processed file whose mtime differs from the
\* one the last persisted scan saw is extracted again (and dispatched when it
\* has units) and its entry is overwritten with the new mtime and findings; a
\* processed file whose mtime is the same is a hit and keeps its entry.
C8_InvalidationPerFile ==
    (pc = "await" /\ config.cache) =>
        \A p \in Paths : (Processed(p) /\ prev[p].known) =>
            IF prev[p].mtime # tree[p].mtime
            THEN /\ p \in extracted
                 /\ (extractPrompts(tree, p) # <<>>) => p \in dispatched
                 /\ cache.entries[p] = Entry(tree[p].mtime, ReturnedFor(fileResults, p))
            ELSE /\ taskState[p] = "hit"
                 /\ cache.entries[p] = LoadedEntry(p)
                 /\ cache.entries[p] = Entry(prev[p].mtime, prev[p].findings)

\* C8 witness: a.json was modified since the last persisted scan and is
\* scanned again, b.txt was not and is served from its entry
C8_Witness ==
    /\ pc = "await"
    /\ config.cache
    /\ prev["a.json"].known /\ prev["b.txt"].known
    /\ Processed("a.json") /\ Processed("b.txt")
    /\ prev["a.json"].mtime # tree["a.json"].mtime
    /\ "a.json" \in dispatched
    /\ cache.entries["a.json"] # LoadedEntry("a.json")
    /\ cache.entries["a.json"].findings # <<>>
    /\ taskState["b.txt"] = "hit"
    /\ cache.entries["b.txt"].findings # <<>>

\* the same scan with cache: false, the tasks one after the other
RECURSIVE RunAll(_, _, _, _)
RunAll(S, cfg, t, fileList) ==
    IF fileList = <<>> THEN S
    ELSE RunAll(RunTask(S, cfg, t, Head(fileList)), cfg, t, Tail(fileList))

Uncached ==
    LET cfg == [config EXCEPT !.cache = FALSE]
        S == RunAll(ScanStart(cfg, cacheFile), cfg, tree, discoverFiles(tree))
    IN  [rejected |-> \E p \in Paths : S.taskState[p] = "threw",
         result |-> buildScanResult(SortByFile(S.fileResults), cfg)]

\* C9: caching is a pure optimization: whatever scans, file modifications and
\* config changes came before, a scan that returns with caching enabled returns
\* the findings, file scores, repoScore and passed verdict that the same scan
\* returns with cache: false
C9_CacheIsPureOptimization ==
    (pc = "returned" /\ config.cache /\ ~Uncached.rejected) =>
        result = Uncached.result

\* C10: loading the cache is never fatal: no task fails in the cache lookup
C10_LoadNeverFatal ==
    \A p \in Paths : ~(taskState[p] = "threw" /\ p \notin dispatched)

(***************************************************************************)
(* A second call of runScan on the same tree with the same config          *)
(***************************************************************************)

\* the pending .finally callbacks run one after the other until none is left
RECURSIVE DrainLimiter(_, _, _)
DrainLimiter(L, cfg, t) ==
    IF L.micro = <<>> THEN L ELSE DrainLimiter(finally(L, cfg, t), cfg, t)

\* runScan called again, now, with the config of the call that just returned:
\* it loads the cache file as that call left it
Rescan ==
    LET L == DrainLimiter(MapLimit([S |-> ScanStart(config, cacheFile), queue |-> <<>>,
                                    active |-> 0, micro |-> <<>>],
                                   config, tree, discoverFiles(tree)),
                          config, tree)
    IN  [rejected |-> \E p \in Paths : L.S.taskState[p] = "threw",
         hung |-> L.queue # <<>>,
         served |-> {p \in Paths : L.S.taskState[p] = "hit"},
         result |-> buildScanResult(SortByFile(L.S.fileResults), config)]

\* C11: determinism.  When a scan has returned, a second scan of the unchanged
\* tree with the same config returns the same files[] in the same order and
\* the same repoScore, whether it is served from the cache or not; files[] is
\* sorted by file path, and no task is still queued or unstarted when the sort
\* has happened.
C11_Determinism ==
    pc = "returned" =>
        /\ ~Rescan.rejected
        /\ ~Rescan.hung
        /\ Rescan.result.files = result.files
        /\ Rescan.result.repoScore = result.repoScore
        /\ \A i, j \in 1..Len(result.files) :
               i < j => LocaleLess(result.files[i].file, result.files[j].file)
        /\ \A p \in Paths : taskState[p] # "queued"
        /\ \A k \in 1..Len(discoverFiles(tree)) : taskState[discoverFiles(tree)[k]] # "none"

\* C11 witness: a scan returned two file results in path order and the second
\* scan of the same tree serves both from the cache
C11_Witness ==
    /\ pc = "returned"
    /\ config.cache
    /\ Len(result.files) = 2
    /\ result.files[1].file = "a.json"
    /\ result.files[2].file = "b.txt"
    /\ Rescan.served = {"a.json", "b.txt"}
    /\ Rescan.result.files = result.files

(***************************************************************************)
(* runScan on a tree of five files, without the cache: the worker pool,    *)
(* the maxFindings stop and the plugins (specification SpecPool)           *)
(***************************************************************************)

MaxConcurrency == 3

\* a line of a code file in which a cross-line trigger pattern matches
TsLine == CodeLine(30, FALSE, FALSE, {Str_JBK001}, {}, {}, FALSE, FALSE, TRUE, FALSE)

\* a line of more than 50 characters that the rule of the plugin matches
PlgLine == Line(60, FALSE, FALSE, {Str_PLG001}, {}, {})

PoolFile(lines) == [present |-> TRUE, readable |-> TRUE, mtime |-> 1, lines |-> lines]

PoolTrees ==
    {[p \in Paths |-> CASE p = "a.json" -> PoolFile(a)
                        [] p = "b.txt" -> PoolFile(b)
                        [] p = "c.ts" -> PoolFile(<<TsLine>>)
                        [] p = "d.py" -> PoolFile(<<LongHit>>)
                        [] p = "e.log" -> PoolFile(e)] :
        a \in { <<Plain>>, <<KeyHit, KeyHit, KeyHit>> },
        b \in { <<Short>>, <<LongHit>> },
        e \in { <<PlgLine>>, <<LongHit, LongHit>> }}

\* a plugin that exports one rule
RulePlugin == PluginModule(TRUE, FALSE, << Element("rule", Str_PLG001) >>)

PoolConfigs ==
    [cache : {FALSE}, concurrency : (1..MaxConcurrency) \cup {Unset}, maxFindings : {Unset, 1, 2},
     excludeRules : {<<>>}, includeRules : {<<>>}, plugins : {<<>>, <<RulePlugin>>},
     minConfidence : {"unset"}, threshold : {60}, failOn : {"unset"},
     failFileThreshold : {Unset}]

InitPool ==
    /\ tree \in PoolTrees
    /\ cacheFile = MissingFile
    /\ pc = "idle"
    /\ NoScan
    /\ prev = NoHistory
    /\ prompts = <<>>
    /\ findings = <<>>

NextPool ==
    \/ \E cfg \in PoolConfigs : StartScan(cfg)
    \/ Finally
    \/ Return(TRUE)

SpecPool == InitPool /\ [][NextPool]_vars

\* C12: in the limiter of a scan with concurrency >= 1 the number of tasks
\* started whose .finally callback has not run yet is `active`, and
\* 0 <= active <= concurrency at every point (8 when concurrency is unset)
C12_ActiveBounded ==
    Concurrency(config) >= 1 =>
        /\ active = Len(micro)
        /\ 0 <= active
        /\ active <= Concurrency(config)

\* C12 witness: with concurrency 2, two tasks are active and others wait
C12_Witness ==
    /\ pc = "await"
    /\ Concurrency(config) = 2
    /\ active = 2
    /\ Len(queue) >= 2

\* C13: with maxFindings = N > 0 the returned ScanResult holds at most
\* N + concurrency findings
C13_OvershootBounded ==
    (pc = "returned" /\ config.maxFindings # Unset /\ config.maxFindings > 0) =>
        Len(result.allFindings) <= config.maxFindings + Concurrency(config)

\* C14: every loaded plugin rule is dispatched on every unit of every file
\* that is dispatched: each match of it is a Finding of the ScanResult
C14_PluginRulesDispatched ==
    (pc = "returned" /\ pluginRules.defined /\ config.maxFindings = Unset) =>
        \A k \in 1..Len(pluginRules.rules) : \A p \in dispatched :
            LET rule == pluginRules.rules[k]
                ps == extractPrompts(tree, p)
            IN  (rule.kind = "rule" /\ ~RuleSkipped(rule, config)) =>
                    \A u \in 1..Len(ps) : \A i \in 1..Len(ps[u].text) :
                        rule.id \in ps[u].text[i].hits =>
                            \E n \in 1..Len(result.allFindings) :
                                /\ result.allFindings[n].id = rule.id
                                /\ result.allFindings[n].file = p
                                /\ result.allFindings[n].lineStart = ps[u].lineStart + (i - 1)

(***************************************************************************)
(* loadPluginRules on its own (specification SpecPlugin)                   *)
(***************************************************************************)

MaxPlugins == 2

\* the plugin modules a config can name
PluginModules ==
    { PluginModule(FALSE, FALSE, <<>>),
      PluginModule(TRUE, FALSE, << Element("rule", Str_PLG001) >>),
      PluginModule(TRUE, FALSE, << Element("nocheck", Str_PLG001) >>),
      PluginModule(TRUE, FALSE, << Element("badcheck", Str_PLG001) >>),
      PluginModule(TRUE, FALSE, << Element("number", Str_PLG001) >>),
      PluginModule(TRUE, TRUE, <<>>),
      PluginModule(TRUE, TRUE, << Element("rule", Str_PLG002) >>),
      PluginModule(TRUE, TRUE, << Element("rule", Str_PLG001), Element("rule", Str_PLG002) >>),
      PluginModule(TRUE, TRUE, << Element("rule", Str_PLG002), Element("number", Str_PLG001) >>),
      PluginModule(TRUE, TRUE, << Element("nocheck", Str_PLG002) >>) }

PluginLists == UNION {[1..n -> PluginModules] : n \in 0..MaxPlugins}

InitPlugin ==
    /\ tree = CHOOSE t \in Trees : TRUE
    /\ cacheFile = MissingFile
    /\ pc = "plugins"
    /\ config \in {[DefaultConfig EXCEPT !.plugins = pl] : pl \in PluginLists}
    /\ cache = EMPTY_CACHE
    /\ fileResults = <<>>
    /\ totalFindings = 0
    /\ aborted = FALSE
    /\ extracted = {}
    /\ dispatched = {}
    /\ emitted = <<>>
    /\ taskState = [p \in Paths |-> "none"]
    /\ queue = <<>>
    /\ active = 0
    /\ micro = <<>>
    /\ result = NoResult
    /\ pluginRules = NoPluginRules
    /\ cacheIO = NoCacheIO
    /\ started = <<>>
    /\ promise = [p \in Paths |-> "none"]
    /\ tracker = NoTracker
    /\ prev = NoHistory
    /\ prompts = <<>>
    /\ findings = <<>>

\* const rules = await loadPluginRules(config.plugins, cwd)
LoadPlugins ==
    /\ pc = "plugins"
    /\ pluginRules' = [defined |-> TRUE, rules |-> loadPluginRules(config.plugins)]
    /\ pc' = "loaded"
    /\ UNCHANGED <<tree, cacheIO, started, promise, tracker, cacheFile, config, cache, queue, active, micro, fileResults,
                   totalFindings, aborted, result, extracted, dispatched, emitted, prompts,
                   findings, taskState, prev>>

NextPlugin == LoadPlugins

SpecPlugin == InitPlugin /\ [][NextPlugin]_vars

\* the plugin loads and exports a Rule or an array of Rules
IsRulePlugin(plugin) ==
    /\ plugin.loads
    /\ \A i \in 1..Len(plugin.elems) : plugin.elems[i].kind = "rule"
    /\ plugin.isArray \/ Len(plugin.elems) = 1

\* the rules of the plugins that load and export Rules, in the order of the list
RECURSIVE RulesOfRulePlugins(_)
RulesOfRulePlugins(plugins) ==
    IF plugins = <<>> THEN <<>>
    ELSE (IF IsRulePlugin(Head(plugins)) THEN Head(plugins).elems ELSE <<>>)
         \o RulesOfRulePlugins(Tail(plugins))

\* C15: loadPluginRules returns exactly the rules of the plugins that load and
\* export a Rule or an array of Rules: a bad plugin contributes nothing, and
\* every element returned is an object with a check function
C15_NoPartialRegistration ==
    pc = "loaded" =>
        /\ pluginRules.rules = RulesOfRulePlugins(config.plugins)
        /\ \A k \in 1..Len(pluginRules.rules) : pluginRules.rules[k].kind = "rule"

(***************************************************************************)
(* analyzePrompt under the rule filters (specification SpecFilter)         *)
(***************************************************************************)

MaxPatterns == 2

\* filter patterns: a prefix glob, two ids, a prefix without a star, the bare star
FilterPatterns ==
    { <<"I", "N", "J", "-", "*">>, Str_INJ001, Str_JBK001, <<"I", "N", "J", "-", "0">>, <<"*">> }

PatternLists == UNION {[1..n -> FilterPatterns] : n \in 0..MaxPatterns}

FilterConfigs ==
    {[DefaultConfig EXCEPT !.excludeRules = ex, !.includeRules = inc, !.minConfidence = mc] :
        ex \in PatternLists, inc \in PatternLists, mc \in {"unset", "low", "medium", "high"}}

InitFilter ==
    /\ tree = CHOOSE t \in Trees : TRUE
    /\ cacheFile = MissingFile
    /\ pc = "dispatch"
    /\ config \in FilterConfigs
    /\ cache = EMPTY_CACHE
    /\ fileResults = <<>>
    /\ totalFindings = 0
    /\ aborted = FALSE
    /\ extracted = {}
    /\ dispatched = {}
    /\ emitted = <<>>
    /\ taskState = [p \in Paths |-> "none"]
    /\ queue = <<>>
    /\ active = 0
    /\ micro = <<>>
    /\ result = NoResult
    /\ pluginRules = NoPluginRules
    /\ cacheIO = NoCacheIO
    /\ started = <<>>
    /\ promise = [p \in Paths |-> "none"]
    /\ tracker = NoTracker
    /\ prev = NoHistory
    /\ prompts = << SampleUnit(1, 1, {}) >>
    /\ findings = <<>>

SpecFilter == InitFilter /\ [][NextDispatch]_vars

\* the pattern is the id, or ends with a star and the rest is a prefix of the id
PatternCovers(pattern, id) ==
    \/ pattern = id
    \/ /\ Len(pattern) >= 1
       /\ pattern[Len(pattern)] = "*"
       /\ Len(pattern) - 1 <= Len(id)
       /\ \A k \in 1..(Len(pattern) - 1) : pattern[k] = id[k]

\* C16: the findings analyzePrompt returns hold no rule id that an excludeRules
\* pattern covers, none that no pattern of a non-empty includeRules covers, and
\* none whose confidence is below minConfidence (low < medium < high)
C16_FiltersRespected ==
    pc = "dispatched" =>
        \A n \in 1..Len(findings) :
            LET f == findings[n]
                order == [c \in Confidences |->
                             CASE c = "low" -> 1 [] c = "medium" -> 2 [] c = "high" -> 3]
            IN  /\ ~ \E k \in 1..Len(config.excludeRules) :
                        PatternCovers(config.excludeRules[k], f.id)
                /\ Len(config.includeRules) > 0 =>
                        \E k \in 1..Len(config.includeRules) :
                            PatternCovers(config.includeRules[k], f.id)
                /\ config.minConfidence # "unset" =>
                        order[f.confidence] >= order[config.minConfidence]

\* C16 witness: INJ-* is included, INJ-001 is also excluded, the floor is low:
\* only the INJ-002 finding is returned
C16_Witness ==
    /\ pc = "dispatched"
    /\ config.includeRules = << <<"I", "N", "J", "-", "*">> >>
    /\ config.excludeRules = << Str_INJ001 >>
    /\ config.minConfidence = "low"
    /\ Len(findings) = 1
    /\ findings[1].id = Str_INJ002

(***************************************************************************)
(* The onFinding callback (specification Spec)                             *)
(***************************************************************************)

\* how many times f occurs in the sequence fs
Occurrences(f, fs) == Cardinality({i \in 1..Len(fs) : fs[i] = f})

\* C17: when runScan returns, onFinding has been invoked exactly once for each
\* Finding of the returned allFindings and for nothing else, be the finding
\* served from the cache or freshly dispatched, be the scan cut short or not
C17_OnFindingOncePerFinding ==
    pc = "returned" =>
        /\ Len(emitted) = Len(result.allFindings)
        /\ \A i \in 1..Len(emitted) : Occurrences(emitted[i], result.allFindings) = 1
        /\ \A i \in 1..Len(result.allFindings) : Occurrences(result.allFindings[i], emitted) = 1

\* C17 witness: a.json is served from the cache, b.txt is dispatched, and the
\* findings of both were streamed
C17_Witness ==
    /\ pc = "returned"
    /\ taskState["a.json"] = "hit"
    /\ taskState["b.txt"] = "found"
    /\ Len(result.allFindings) >= 3
    /\ Len(emitted) = Len(result.allFindings)
    /\ \E i \in 1..Len(emitted) : emitted[i].file = "a.json"
    /\ \E i \in 1..Len(emitted) : emitted[i].file = "b.txt"

(***************************************************************************)
(* extractPrompts on its own (specification SpecExtract): one file, of any *)
(* of the five paths, with any content of up to MaxLines lines             *)
(***************************************************************************)

MaxLines == 2

Exactly50 == Line(50, FALSE, FALSE, {}, {}, {})
Over50 == Line(51, FALSE, FALSE, {}, {}, {})
Phrase == Line(10, FALSE, TRUE, {}, {}, {})
Trigger == CodeLine(30, FALSE, FALSE, {}, {}, {}, FALSE, FALSE, TRUE, FALSE)
LlmImport == CodeLine(25, FALSE, FALSE, {}, {}, {}, FALSE, FALSE, FALSE, TRUE)
Backtick == CodeLine(20, FALSE, TRUE, {}, {}, {}, TRUE, FALSE, FALSE, FALSE)
RoleContent == CodeLine(40, TRUE, FALSE, {}, {}, {}, FALSE, TRUE, FALSE, FALSE)

ExtractLines ==
    {Plain, Exactly50, Over50, Phrase, KeyHit, Trigger, LlmImport, Backtick, RoleContent}

ExtractContents == UNION {[1..n -> ExtractLines] : n \in 1..MaxLines}

ExtractTrees ==
    {[p \in Paths |-> IF p = q THEN PoolFile(lines) ELSE AbsentFile] :
        q \in Paths, lines \in ExtractContents}

InitExtract ==
    /\ tree \in ExtractTrees
    /\ cacheFile = MissingFile
    /\ pc = "extract"
    /\ NoScan
    /\ prev = NoHistory
    /\ prompts = <<>>
    /\ findings = <<>>

\* const prompts = extractPrompts(file)
Extract(p) ==
    /\ pc = "extract"
    /\ tree[p].present
    /\ prompts' = extractPrompts(tree, p)
    /\ extracted' = {p}
    /\ pc' = "extracted"
    /\ UNCHANGED <<tree, pluginRules, cacheIO, started, promise, tracker, cacheFile, config, cache, queue, active, micro,
                   fileResults, totalFindings, aborted, result, dispatched, emitted,
                   findings, taskState, prev>>

NextExtract == \E p \in Paths : Extract(p)

SpecExtract == InitExtract /\ [][NextExtract]_vars

\* the units of kind code-block among the extracted ones
CodeBlocks == {k \in 1..Len(prompts) : prompts[k].kind = "code-block"}

\* the lines of the file that was extracted
ExtractedLines == tree[CHOOSE p \in Paths : p \in extracted].lines

\* C18: a .ts/.js/.tsx/.jsx file whose content matches a cross-line trigger,
\* and a .py file whose content holds an LLM-library import, yield exactly one
\* code-block unit covering lines 1..N; a code file matching no trigger yields
\* no code-block unit
C18_CodeBlockGate ==
    pc = "extracted" =>
        LET lines == ExtractedLines
            whole == \A k \in CodeBlocks :
                        /\ prompts[k].lineStart = 1
                        /\ prompts[k].lineEnd = Len(lines)
                        /\ prompts[k].text = lines
        IN  /\ ("c.ts" \in extracted /\ \E i \in 1..Len(lines) : lines[i].trigger)
                  => (Cardinality(CodeBlocks) = 1 /\ whole)
            /\ ("d.py" \in extracted /\ \E i \in 1..Len(lines) : lines[i].llm)
                  => (Cardinality(CodeBlocks) = 1 /\ whole)
            /\ ("c.ts" \in extracted /\ ~ \E i \in 1..Len(lines) : lines[i].trigger)
                  => CodeBlocks = {}

\* the number of characters of a content: its lines and the line breaks between
RECURSIVE Characters(_)
Characters(lines) ==
    IF Len(lines) = 1 THEN lines[1].len
    ELSE lines[1].len + 1 + Characters(Tail(lines))

\* C19: a .txt file, or a file of an extension not otherwise classified,
\* yields exactly one raw unit spanning lines 1..N of the whole file when its
\* content is longer than 50 characters or holds a system phrase, and no unit
\* otherwise
C19_RawExtraction ==
    (pc = "extracted" /\ extracted \subseteq {"b.txt", "e.log"}) =>
        LET lines == ExtractedLines
        IN  IF Characters(lines) > 50 \/ \E i \in 1..Len(lines) : lines[i].phrase
            THEN /\ Len(prompts) = 1
                 /\ prompts[1].kind = "raw"
                 /\ prompts[1].lineStart = 1
                 /\ prompts[1].lineEnd = Len(lines)
                 /\ prompts[1].text = lines
            ELSE prompts = <<>>

\* C19 witness: b.txt of 51 characters without a phrase gives one raw unit
C19_Witness ==
    /\ pc = "extracted"
    /\ extracted = {"b.txt"}
    /\ tree["b.txt"].lines = << Over50 >>
    /\ Len(prompts) = 1
    /\ prompts[1].kind = "raw"

(***************************************************************************)
(* ruleToFinding on its own (specification SpecRisk): rules of every       *)
(* severity and confidence are turned into findings, MaxRiskFindings of    *)
(* them side by side                                                       *)
(***************************************************************************)

MaxRiskFindings == 2

RiskRules == [id : {Str_INJ001}, severity : Severities, confidence : Confidences]

InitRisk ==
    /\ tree = CHOOSE t \in Trees : TRUE
    /\ cacheFile = MissingFile
    /\ pc = "risk"
    /\ NoScan
    /\ prev = NoHistory
    /\ prompts = <<>>
    /\ findings = <<>>

\* ruleToFinding(rule, match, filePath), base risk points before any discount
ToFinding(rule) ==
    /\ pc = "risk"
    /\ Len(findings) < MaxRiskFindings
    /\ findings' = Append(findings,
           ruleToFinding(rule, [lineStart |-> 1, lineEnd |-> 1], "b.txt"))
    /\ UNCHANGED <<tree, pluginRules, cacheIO, started, promise, tracker, cacheFile, config, pc, cache, queue, active, micro,
                   fileResults, totalFindings, aborted, result, extracted, dispatched,
                   emitted, prompts, taskState, prev>>

NextRisk == \E rule \in RiskRules : ToFinding(rule)

SpecRisk == InitRisk /\ [][NextRisk]_vars

\* low < medium < high
ConfidenceRank(confidence) ==
    CASE confidence = "low" -> 1
      [] confidence = "medium" -> 2
      [] confidence = "high" -> 3

\* C20: of two findings of the same severity, the one of higher confidence has
\* at least the base risk points of the other (high >= medium >= low)
C20_RiskMonotonicity ==
    \A i, j \in 1..Len(findings) :
        (/\ findings[i].severity = findings[j].severity
         /\ ConfidenceRank(findings[i].confidence) >= ConfidenceRank(findings[j].confidence))
            => findings[i].riskPoints >= findings[j].riskPoints

\* C20 witness: a low-severity rule at high and at medium confidence, 5 and 4
\* points (3.75 rounded)
C20_Witness ==
    /\ Len(findings) = 2
    /\ findings[1].severity = "low" /\ findings[1].confidence = "high"
    /\ findings[2].severity = "low" /\ findings[2].confidence = "medium"
    /\ findings[1].riskPoints = 5
    /\ findings[2].riskPoints = 4

(***************************************************************************)
(* Cache lifecycle of a scan (specification Spec)                          *)
(***************************************************************************)

\* the call of runScan is over, returned or rejected, and every task of it
\* has settled
ScanOver == pc \in {"returned", "rejected"} /\ micro = <<>> /\ queue = <<>>

\* C21: a scan with caching reads the cache file once, before any task
\* starts, and writes it exactly once, after every task has settled; a scan
\* with cache: false neither reads nor writes it
C21_CacheLifecycle ==
    /\ (pc # "idle" /\ config.cache) => cacheIO.reads = 1
    /\ (pc # "idle" /\ ~config.cache) => cacheIO = NoCacheIO
    /\ (cacheIO.writes > 0) => (ScanOver /\ \A p \in Paths : taskState[p] # "queued")
    /\ (ScanOver /\ config.cache) => cacheIO.writes = 1

(***************************************************************************)
(* The template-literal tracker of extractFromCode, line by line           *)
(* (specification SpecTracker): a code file of up to MaxTrackerLines       *)
(* lines, each with an odd number of backticks or none                     *)
(***************************************************************************)

MaxTrackerLines == 202

\* a line with one backtick and neither phrase nor key
BareTick == CodeLine(20, FALSE, FALSE, {}, {}, {}, TRUE, FALSE, FALSE, FALSE)

TrackerLines == {Plain, Backtick, BareTick}

InitTracker ==
    /\ tree = CHOOSE t \in Trees : TRUE
    /\ cacheFile = MissingFile
    /\ pc = "track"
    /\ NoScan
    /\ prev = NoHistory
    /\ prompts = <<>>
    /\ findings = <<>>

\* one turn of the loop of extractFromCode, its tracker part: line i is read
\* and the tracker moves; prompts holds what this turn pushed
TrackLine(line) ==
    /\ pc = "track"
    /\ tracker.i < MaxTrackerLines
    /\ LET i == tracker.i + 1
           step == TemplateStep([j \in {i} |-> line], i,
                       [inside |-> tracker.inside, start |-> tracker.start,
                        lines |-> tracker.lines])
       IN  /\ tracker' = [i |-> i, inside |-> step.T.inside, start |-> step.T.start,
                          lines |-> step.T.lines, read |-> line]
           /\ prompts' = step.out
    /\ UNCHANGED <<tree, pluginRules, cacheIO, started, promise, cacheFile, config, pc, cache,
                   queue, active, micro, fileResults, totalFindings, aborted, result,
                   extracted, dispatched, emitted, findings, taskState, prev>>

NextTracker == \E line \in TrackerLines : TrackLine(line)

SpecTracker == InitTracker /\ [][NextTracker]_vars

\* C23: the tracker goes inside only on a line with an odd number of
\* backticks; it leaves either on the next such line, pushing a
\* template-string unit iff the accumulated text matches the phrase or key
\* pattern, or by the force-close once more than 200 lines have accumulated,
\* pushing nothing and dropping them; the buffer never holds more than 201
\* lines and no template-string unit spans more than 201 lines
C23_TemplateTracker ==
    [][LET line == tracker'.read
           text == Append(tracker.lines, line)
       IN  /\ (~tracker.inside /\ tracker'.inside) => line.ticks
           /\ (~tracker.inside /\ ~line.ticks) => (~tracker'.inside /\ prompts' = <<>>)
           /\ (tracker.inside /\ line.ticks) =>
                  /\ ~tracker'.inside
                  /\ tracker'.lines = <<>>
                  /\ (prompts' # <<>>) <=> (HasPhrase(text) \/ HasKey(text))
           /\ (tracker.inside /\ ~line.ticks) =>
                  /\ prompts' = <<>>
                  /\ IF Len(text) > 200
                     THEN ~tracker'.inside /\ tracker'.lines = <<>>
                     ELSE tracker'.inside /\ tracker'.lines = text
           /\ Len(tracker'.lines) <= 201
           /\ \A k \in 1..Len(prompts') :
                  /\ prompts'[k].kind = "template-string"
                  /\ prompts'[k].lineEnd - prompts'[k].lineStart + 1 <= 201
                  /\ Len(prompts'[k].text) = prompts'[k].lineEnd - prompts'[k].lineStart + 1
      ]_vars

\* C23 witness: a template literal of exactly 201 lines was pushed
C23_Witness ==
    /\ tracker.i = 201
    /\ ~tracker.inside
    /\ tracker.read.ticks
    /\ Len(prompts) = 1
    /\ prompts[1].kind = "template-string"
    /\ prompts[1].lineStart = 1
    /\ prompts[1].lineEnd = 201

(***************************************************************************)
(* extractPrompts on a structured file (specification SpecStructured):     *)
(* a.json of up to MaxStructLines lines with up to two prompt-key lines    *)
(***************************************************************************)

MaxStructLines == 23

\* a content of n lines whose prompt-key lines are those of K
StructContent(n, K) == [i \in 1..n |-> IF i \in K THEN KeyHit ELSE Plain]

StructContents ==
    {StructContent(n, {a, b} \ {0}) : n \in 1..MaxStructLines,
        a \in 0..MaxStructLines, b \in 0..MaxStructLines}

StructTrees ==
    {[p \in Paths |-> IF p = "a.json" THEN PoolFile(lines) ELSE AbsentFile] :
        lines \in StructContents}

InitStructured ==
    /\ tree \in StructTrees
    /\ cacheFile = MissingFile
    /\ pc = "extract"
    /\ NoScan
    /\ prev = NoHistory
    /\ prompts = <<>>
    /\ findings = <<>>

SpecStructured == InitStructured /\ [][NextExtract]_vars

\* the prompt-key lines of a content, in line order
KeyLines(lines) == SortedNat({i \in 1..Len(lines) : lines[i].key})

\* C24, as amended: every prompt-key line i of a structured file of N lines
\* yields one object-field unit, in line order, that covers lines i to
\* min(i + 20, N): the hit line and up to 20 lines after it, 21 lines unless
\* the file ends first
C24_WindowOf21 ==
    (pc = "extracted" /\ extracted = {"a.json"}) =>
        LET lines == ExtractedLines
            hits == KeyLines(lines)
        IN  /\ Len(prompts) = Len(hits)
            /\ \A k \in 1..Len(hits) :
                  /\ prompts[k].kind = "object-field"
                  /\ prompts[k].lineStart = hits[k]
                  /\ prompts[k].lineEnd = IF hits[k] + 20 <= Len(lines)
                                          THEN hits[k] + 20 ELSE Len(lines)
                  /\ prompts[k].text = SubSeq(lines, prompts[k].lineStart, prompts[k].lineEnd)

\* C24 as stated: every unit starts at its prompt-key line and is a window of
\* 20 lines, shorter only when the file ends first
C24_WindowOf20 ==
    (pc = "extracted" /\ extracted = {"a.json"}) =>
        LET lines == ExtractedLines
            hits == KeyLines(lines)
        IN  /\ Len(prompts) = Len(hits)
            /\ \A k \in 1..Len(hits) :
                  /\ prompts[k].kind = "object-field"
                  /\ prompts[k].lineStart = hits[k]
                  /\ prompts[k].lineEnd - prompts[k].lineStart + 1
                        = (IF hits[k] + 19 <= Len(lines)
                           THEN 20 ELSE Len(lines) - hits[k] + 1)

\* C24 witness: two prompt-key lines, 1 and 3, in a file of 23 lines give the
\* overlapping windows 1..21 and 3..23
C24_Witness ==
    /\ pc = "extracted"
    /\ extracted = {"a.json"}
    /\ Len(tree["a.json"].lines) = 23
    /\ Len(prompts) = 2
    /\ prompts[1].lineStart = 1 /\ prompts[1].lineEnd = 21
    /\ prompts[2].lineStart = 3 /\ prompts[2].lineEnd = 23

(***************************************************************************)
(* createLimiter on its own (specification SpecLimiter): up to MaxTasks    *)
(* tasks are submitted to limit() one after the other, at any moments; a   *)
(* started task settles at any later moment, fulfilled or rejected.        *)
(*   taskState  none, queued, running, fulfilled, threw: the promise fn()  *)
(*              returned                                                   *)
(*   promise    none, pending, resolved, rejected: the promise limit()     *)
(*              returned                                                   *)
(*   micro      the pending promise reactions: first `then`, which passes  *)
(*              the outcome to resolve / reject, then `finally`            *)
(***************************************************************************)

MaxTasks == 3

\* the tasks in the order of their submission
TaskOrder == SubSeq(SortedSeq(Paths), 1, MaxTasks)

\* the limiter as one record
LimiterState == [queue |-> queue, active |-> active, started |-> started,
                 taskState |-> taskState]

\* a drain loop that takes the task queued last
RECURSIVE LimiterNextLifo(_, _)
LimiterNextLifo(L, concurrency) ==
    IF Len(L.queue) > 0 /\ L.active < concurrency
    THEN LET p == L.queue[Len(L.queue)]
         IN  LimiterNextLifo([L EXCEPT !.active = @ + 1,
                                       !.queue = SubSeq(@, 1, Len(@) - 1),
                                       !.started = Append(@, p),
                                       !.taskState[p] = "running"], concurrency)
    ELSE L

\* next(): while (queue.length > 0 && active < concurrency) { active++; queue.shift()!() }
\* the thunk calls fn(), which starts the task
RECURSIVE LimiterNext(_, _)
LimiterNext(L, concurrency) ==
    IF Len(L.queue) > 0 /\ L.active < concurrency
    THEN LET p == Head(L.queue)
         IN  LimiterNext([L EXCEPT !.active = @ + 1,
                                   !.queue = Tail(@),
                                   !.started = Append(@, p),
                                   !.taskState[p] = "running"], concurrency)
    ELSE L

\* a release that only a fulfilled task makes
ReleaseIfFulfilled(L, threw) == IF threw THEN L ELSE [L EXCEPT !.active = @ - 1]

\* active-- in the .finally callback, whatever the outcome of the task
Release(L, threw) == [L EXCEPT !.active = @ - 1]

SetLimiterState(L) ==
    /\ queue' = L.queue
    /\ active' = L.active
    /\ started' = L.started
    /\ taskState' = L.taskState

InitLimiter ==
    /\ tree = CHOOSE t \in Trees : TRUE
    /\ cacheFile = MissingFile
    /\ pc = "limiter"
    /\ config \in {[DefaultConfig EXCEPT !.concurrency = c] : c \in 1..MaxConcurrency}
    /\ cache = EMPTY_CACHE
    /\ fileResults = <<>>
    /\ totalFindings = 0
    /\ aborted = FALSE
    /\ extracted = {}
    /\ dispatched = {}
    /\ emitted = <<>>
    /\ taskState = [p \in Paths |-> "none"]
    /\ queue = <<>>
    /\ active = 0
    /\ micro = <<>>
    /\ result = NoResult
    /\ pluginRules = NoPluginRules
    /\ cacheIO = NoCacheIO
    /\ started = <<>>
    /\ promise = [p \in Paths |-> "none"]
    /\ tracker = NoTracker
    /\ prev = NoHistory
    /\ prompts = <<>>
    /\ findings = <<>>

\* the tasks submitted so far
Submitted == {p \in Paths : promise[p] # "none"}

\* limit(fn): new Promise(...), queue.push(thunk), next()
Submit ==
    /\ pc = "limiter"
    /\ Cardinality(Submitted) < MaxTasks
    /\ LET p == TaskOrder[Cardinality(Submitted) + 1]
       IN  /\ promise' = [promise EXCEPT ![p] = "pending"]
           /\ SetLimiterState(LimiterNext(
                  [LimiterState EXCEPT !.queue = Append(@, p), !.taskState[p] = "queued"],
                  Concurrency(config)))
    /\ UNCHANGED <<tree, pluginRules, cacheIO, tracker, cacheFile, config, pc, cache, micro,
                   fileResults, totalFindings, aborted, result, extracted, dispatched,
                   emitted, prompts, findings, prev>>

\* the promise fn() returned settles; its `then` reaction becomes pending
Settle(p, ok) ==
    /\ pc = "limiter"
    /\ taskState[p] = "running"
    /\ taskState' = [taskState EXCEPT ![p] = IF ok THEN "fulfilled" ELSE "threw"]
    /\ micro' = Append(micro, [kind |-> "then", task |-> p, threw |-> ~ok])
    /\ UNCHANGED <<tree, pluginRules, cacheIO, started, promise, tracker, cacheFile, config,
                   pc, cache, queue, active, fileResults, totalFindings, aborted, result,
                   extracted, dispatched, emitted, prompts, findings, prev>>

\* the oldest pending reaction runs: .then(resolve, reject) settles the
\* promise of limit() and makes the `finally` reaction pending; the `finally`
\* callback does active--; next()
RunReaction ==
    /\ pc = "limiter"
    /\ micro # <<>>
    /\ LET m == Head(micro)
       IN  IF m.kind = "then"
           THEN /\ promise' = [promise EXCEPT ![m.task] =
                                  IF m.threw THEN "rejected" ELSE "resolved"]
                /\ micro' = Append(Tail(micro), [m EXCEPT !.kind = "finally"])
                /\ UNCHANGED <<queue, active, started, taskState>>
           ELSE /\ SetLimiterState(LimiterNext(Release(LimiterState, m.threw),
                                               Concurrency(config)))
                /\ micro' = Tail(micro)
                /\ UNCHANGED promise
    /\ UNCHANGED <<tree, pluginRules, cacheIO, tracker, cacheFile, config, pc, cache,
                   fileResults, totalFindings, aborted, result, extracted, dispatched,
                   emitted, prompts, findings, prev>>

NextLimiter ==
    \/ Submit
    \/ \E p \in Paths : \E ok \in BOOLEAN : Settle(p, ok)
    \/ RunReaction

SpecLimiter == InitLimiter /\ [][NextLimiter]_vars

\* C22: the limiter queue is FIFO: the tasks are started in the order of
\* their submission, so the tasks started so far are the first ones submitted
\* and no task was started before one submitted earlier
C22_StartedInSubmissionOrder ==
    pc = "limiter" =>
        /\ Len(started) <= Cardinality(Submitted)
        /\ \A k \in 1..Len(started) : started[k] = TaskOrder[k]
        /\ \A k \in 1..Len(queue) : queue[k] = TaskOrder[Len(started) + k]

\* C22 witness: with concurrency 2 the second task settled and released its
\* slot while the first was still running, and the third task was started
C22_Witness ==
    /\ pc = "limiter"
    /\ Concurrency(config) = 2
    /\ started = SubSeq(TaskOrder, 1, 3)
    /\ taskState[TaskOrder[1]] = "running"
    /\ taskState[TaskOrder[2]] = "threw"
    /\ taskState[TaskOrder[3]] = "running"
    /\ promise[TaskOrder[2]] = "rejected"
    /\ active = 2

\* Every started task settles, and the pending promise reactions are run
\* (the job queue of the engine never stalls); nothing forces a submission.
SpecLimiterFair ==
    /\ InitLimiter
    /\ [][NextLimiter]_vars
    /\ \A p \in Paths : WF_vars(\E ok \in BOOLEAN : Settle(p, ok))
    /\ WF_vars(RunReaction)

\* the promise limit() returned for p has settled with the outcome of p
SettledAsTask(p) ==
    \/ promise[p] = "resolved" /\ taskState[p] = "fulfilled"
    \/ promise[p] = "rejected" /\ taskState[p] = "threw"

\* C27: with concurrency >= 1 and every started task settling, every task
\* submitted to limit() is eventually started and its promise settles with the
\* task's own outcome (never with another); a rejected task releases its slot
\* as a fulfilled one does, so active is 0 whenever nothing is queued, running
\* or pending, and that moment always comes again
C27_LimiterLiveness ==
    /\ \A p \in Paths :
           (promise[p] = "pending") ~>
               (SettledAsTask(p) /\ \E k \in 1..Len(started) : started[k] = p)
    /\ [](\A p \in Paths : promise[p] \in {"resolved", "rejected"} => SettledAsTask(p))
    /\ []((/\ queue = <<>>
           /\ micro = <<>>
           /\ \A p \in Paths : taskState[p] # "running") => active = 0)
    /\ []<>(queue = <<>> /\ active = 0)

\* C27 witness: with concurrency 1 the first task rejected, and the task
\* queued behind it was started and fulfilled; the limiter is idle again
C27_Witness ==
    /\ pc = "limiter"
    /\ Concurrency(config) = 1
    /\ promise[TaskOrder[1]] = "rejected"
    /\ taskState[TaskOrder[1]] = "threw"
    /\ promise[TaskOrder[2]] = "resolved"
    /\ started = SubSeq(TaskOrder, 1, 2)
    /\ queue = <<>>
    /\ micro = <<>>
    /\ active = 0

(***************************************************************************)
(* Further properties of runScan on the pool trees (specification SpecPool)*)
(***************************************************************************)

\* runScan called on the same tree and cache file with the config cfg, run to
\* the end of its tasks
ScanWith(cfg) ==
    LET L == DrainLimiter(MapLimit([S |-> ScanStart(cfg, cacheFile), queue |-> <<>>,
                                    active |-> 0, micro |-> <<>>],
                                   cfg, tree, discoverFiles(tree)),
                          cfg, tree)
    IN  [rejected |-> \E p \in Paths : L.S.taskState[p] = "threw",
         hung |-> L.queue # <<>>,
         skipped |-> {p \in Paths : L.S.taskState[p] = "skipped"},
         result |-> buildScanResult(SortByFile(L.S.fileResults), cfg)]

\* C25: the ScanResult does not depend on the concurrency: the scan that
\* returned would have returned the same result with any concurrency >= 1
\* (1..MaxConcurrency and the default 8), also when maxFindings cut it short
C25_ConcurrencyIndependent ==
    pc = "returned" =>
        \A c \in (1..MaxConcurrency) \cup {8} :
            LET other == ScanWith([config EXCEPT !.concurrency = c])
            IN  /\ ~other.rejected
                /\ ~other.hung
                /\ other.result = result
                /\ other.skipped = {p \in Paths : taskState[p] = "skipped"}

\* C25 witness: a scan with concurrency 1 that maxFindings cut short, tasks
\* skipped, findings returned
C25_Witness ==
    /\ pc = "returned"
    /\ Concurrency(config) = 1
    /\ aborted
    /\ Cardinality({p \in Paths : taskState[p] = "skipped"}) >= 2
    /\ Len(result.allFindings) >= 1

\* C26: setting maxFindings never turns a failing scan into a passing one:
\* when the scan without maxFindings returns passed = FALSE, the scan that
\* returned with maxFindings set has passed = FALSE too
C26_MaxFindingsKeepsFailure ==
    (pc = "returned" /\ config.maxFindings # Unset) =>
        LET full == ScanWith([config EXCEPT !.maxFindings = Unset])
        IN  (~full.rejected /\ ~full.result.passed) => ~result.passed

(***************************************************************************)
(* The cache entries a scan stores and leaves alone (specification Spec)   *)
(***************************************************************************)

\* the cache holds an entry for p that a lookup would serve now
Servable(c, p) ==
    c.hasEntries /\ c.entries[p].present /\ tree[p].present
    /\ c.entries[p].mtime = tree[p].mtime

\* C28: a cache entry is stored only for a file whose content was read: a
\* file whose read failed has no entry that the next scan would serve
C28_NoEntryForUnreadFile ==
    \A p \in Paths :
        (/\ pc \in {"await", "returned"}
         /\ config.cache
         /\ p \in extracted
         /\ ~tree[p].readable) => ~Servable(cache, p)

\* the task of p went past the cache lookup: p was processed as a cache miss
Missed(p) == taskState[p] \in {"empty", "clean", "found", "dropped", "threw"}

\* C29: when a scan persists its cache, the entries of the files it did not
\* process as cache misses (hits, files skipped after the maxFindings stop,
\* paths not discovered) are the ones it loaded, an entry that differs from
\* the loaded one belongs to a miss and carries the file's current mtime, and
\* no loaded entry is gone
C29_CacheFrame ==
    [][(pc = "await" /\ pc' = "returned" /\ config.cache) =>
          LET loaded == loadCache(cacheFile)
              saved == loadCache(cacheFile')
          IN  \A p \in Paths :
                  /\ ~Missed(p) => saved.entries[p] = loaded.entries[p]
                  /\ loaded.entries[p].present => saved.entries[p].present
                  /\ saved.entries[p] # loaded.entries[p] =>
                         /\ Missed(p)
                         /\ saved.entries[p].present
                         /\ saved.entries[p].mtime = tree[p].mtime
      ]_vars

\* C29 witness: a scan has persisted its cache; it served b.txt as a hit and
\* did not discover a.json, which was deleted, and the entries of both are in
\* the file
C29_Witness ==
    /\ pc = "returned"
    /\ config.cache
    /\ cacheIO.writes = 1
    /\ ~tree["a.json"].present
    /\ taskState["a.json"] = "none"
    /\ taskState["b.txt"] = "hit"
    /\ cacheFile.kind = "json"
    /\ cacheFile.json.entries["a.json"].present
    /\ cacheFile.json.entries["b.txt"].present

(***************************************************************************)
(* Deduplication across the units of one file (specification SpecDispatch) *)
(***************************************************************************)

\* the units of the list, by index, in which rule id matches at line n
UnitsAt(id, n) ==
    {k \in 1..Len(prompts) :
        \E i \in 1..Len(prompts[k].text) :
            /\ id \in prompts[k].text[i].hits
            /\ prompts[k].lineStart + (i - 1) = n}

\* the first of a non-empty set of unit indices
FirstOf(K) == CHOOSE k \in K : \A j \in K : k <= j

\* C30: when several units of one file match the same rule at the same line,
\* one Finding is kept, and its riskPoints are the base points under the
\* mitigation discount of the first such unit of the list; the mitigation
\* total of a later unit does not change them
C30_FirstUnitWins ==
    pc = "dispatched" =>
        \A r \in 1..Len(allRules) : \A n \in 1..MaxUnits :
            LET id == allRules[r].id
                K == UnitsAt(id, n)
                kept == {i \in 1..Len(findings) :
                            findings[i].id = id /\ findings[i].lineStart = n}
            IN  IF K = {} THEN kept = {}
                ELSE /\ Cardinality(kept) = 1
                     /\ \A i \in kept :
                            findings[i].riskPoints =
                                applyMitigation(BaseOf(findings[i]),
                                                TotalOf(prompts[FirstOf(K)]))

\* C30 witness: two units match JBK-001 at line 1, the first without
\* mitigation and the second with mitigations of 45; the finding kept has the
\* 50 points of the first, not the 28 of the second
C30_Witness ==
    /\ pc = "dispatched"
    /\ Len(prompts) = 2
    /\ UnitsAt(Str_JBK001, 1) = {1, 2}
    /\ TotalOf(prompts[1]) = 0
    /\ TotalOf(prompts[2]) = 45
    /\ \E i \in 1..Len(findings) :
          /\ findings[i].id = Str_JBK001
          /\ findings[i].lineStart = 1
          /\ findings[i].riskPoints = 50

====
